---- MODULE Spec2Model ----
(***************************************************************************)
(* x-shell: the session multiplexer of the terminal server.                *)
(*                                                                         *)
(* The model follows src/src/server/session-manager.ts (SessionManager),   *)
(* src/src/server/circular-buffer.ts (CircularBuffer) and the message and  *)
(* PTY handlers of src/src/server/terminal-server.ts (TerminalServer).     *)
(* One action is one run of an event handler of the Node.js event loop: a  *)
(* WebSocket message, a WebSocket close, a PTY data or exit event, an      *)
(* orphan timer callback, a tick of the idle sweeper.                      *)
(***************************************************************************)
EXTENDS Integers, Sequences, FiniteSets, TLC

\* ------------------------------------------------------------------ bounds
\* Number of WebSocket connections ever accepted (each gets a fresh client id).
MaxClients == 2
\* Number of session ids ever generated.
MaxSid == 2
\* Number of characters a PTY emits over its life.
MaxEmit == 2
\* Largest chunk one PTY data event carries.
MaxChunk == 2
\* Messages of one client still suspended in the permission check when its
\* transport closes.
MaxInGate == 1
\* Largest value of the options maxClientsPerSession, maxSessionsTotal.
MaxLimitOpt == 2
\* The configured history capacity (option historySize).
OptHistorySize == 1
MaxPending == 2
MaxGateSid == 1

Clients == 1..MaxClients
Sids == 1..MaxSid
NoClient == 0

\* ------------------------------------------------------- program constants
DefaultMaxClientsPerSession == 10
DefaultMaxSessionsTotal == 100
DefaultMaxSessionsPerClient == 5
DefaultHistorySize == 50000
DefaultIdleTimeout == 1800000
DefaultOrphanTimeout == 60000
DefaultCols == 80
DefaultRows == 24

VARIABLES
  options,   \* the TerminalServerOptions the server was constructed with
  sm,        \* the SessionManager: sessions, clientToSessions, orphanTimers,
             \* and the runtime objects it holds handles to (timeouts, PTYs)
  wsState,   \* per client id: "init" (not yet connected), "open", "closed"
  inGate,    \* per client: messages suspended in checkPermission at the
             \* moment its transport closed, still to be dispatched
  nextSid,   \* the next session id spawnSession generates
  emitted,   \* per session id: number of characters its PTY has emitted
  sent,      \* per client: the frames ws.send() was called with for that
             \* client's socket during the last handler, in order
  ptyCalls,  \* the pty.write() calls made during the last handler
  last,      \* the event whose handler ran last
  gate,      \* the authentication state and the permission gate: the
             \* provider configuration, authPendingClients, clientUsers and
             \* the messages suspended in checkPermission
  cleanupInterval,  \* the interval of the idle sweeper is set
  policy,    \* an AuthProvider, a user context and the provider's answer
             \* to the last permission request made for that user
  buffer,    \* a CircularBuffer: maxSize, chunks, totalSize
  client     \* a TerminalClient: its socket, its reconnect counter and timer

vars == <<options, sm, wsState, inGate, nextSid, emitted, sent, ptyCalls,
          last, gate, cleanupInterval, policy, buffer, client>>

\* The objects that live outside a TerminalServer.
outside == <<policy, buffer, client>>

\* No provider, CircularBuffer or TerminalClient under study.
NoPolicy == [provider |-> <<>>]

NoBuffer ==
  [obj |-> [buffer |-> <<>>, maxSize |-> 0, currentSize |-> 0],
   appended |-> <<>>, calls |-> 0, op |-> "none", data |-> <<>>]

NoTerminalClient == [op |-> "none"]

\* ---------------------------------------------------------------- helpers
Range(f) == {f[x] : x \in DOMAIN f}

\* A JavaScript Map or object without key k.
Without(f, k) == [x \in DOMAIN f \ {k} |-> f[x]]

\* Array.prototype.join('') of a list of chunks.
RECURSIVE Join(_)
Join(chunks) ==
  IF chunks = <<>> THEN <<>> ELSE Head(chunks) \o Join(Tail(chunks))

\* String.prototype.slice(-n): the last n characters; slice(-0) is slice(0),
\* the whole string.
SliceLast(str, n) ==
  IF n = 0 \/ n >= Len(str) THEN str
  ELSE SubSeq(str, Len(str) - n + 1, Len(str))

\* ---------------------------------------------------------- CircularBuffer
NewCircularBuffer(maxSize) ==
  [buffer |-> <<>>, maxSize |-> maxSize, currentSize |-> 0]

\* The while loop of append: trim whole chunks from the front.
RECURSIVE TrimFront(_)
TrimFront(b) ==
  IF b.currentSize > b.maxSize /\ Len(b.buffer) > 1
  THEN TrimFront([b EXCEPT !.buffer = Tail(@),
                           !.currentSize = @ - Len(Head(b.buffer))])
  ELSE b

\* append of a ring of characters: the buffer keeps the last maxSize
\* characters of what it held followed by the data.
BufferAppend_Ring(b, data) ==
  IF data = <<>> THEN b
  ELSE LET content == Join(b.buffer) \o data
           kept == IF Len(content) <= b.maxSize THEN content
                   ELSE SubSeq(content, Len(content) - b.maxSize + 1,
                               Len(content))
       IN [b EXCEPT !.buffer = <<kept>>, !.currentSize = Len(kept)]

BufferAppend(b, data) ==
  IF data = <<>> THEN b
  ELSE LET pushed == [b EXCEPT !.buffer = Append(@, data),
                               !.currentSize = @ + Len(data)]
           trimmed == TrimFront(pushed)
       IN IF Len(trimmed.buffer) = 1 /\ trimmed.currentSize > trimmed.maxSize
          THEN LET chunk == SliceLast(trimmed.buffer[1], trimmed.maxSize)
               IN [trimmed EXCEPT !.buffer = <<chunk>>,
                                  !.currentSize = Len(chunk)]
          ELSE trimmed

\* clear().
BufferClear(b) == [b EXCEPT !.buffer = <<>>, !.currentSize = 0]

\* toString(limit); limit 0 stands for an absent (or zero) limit.
BufferToString(b, limit) ==
  LET content == Join(b.buffer)
  IN IF limit > 0 /\ Len(content) > limit
     THEN SliceLast(content, limit)
     ELSE content

\* ----------------------------------------------------------- configuration
\* The constructor of TerminalServer: option || default.
OrDefault(opt, default) == IF opt = 0 THEN default ELSE opt

Config ==
  [maxClientsPerSession |->
     OrDefault(options.maxClientsPerSession, DefaultMaxClientsPerSession),
   maxSessionsTotal |->
     OrDefault(options.maxSessionsTotal, DefaultMaxSessionsTotal),
   maxSessionsPerClient |->
     OrDefault(options.maxSessionsPerClient, DefaultMaxSessionsPerClient),
   historySize |-> OrDefault(options.historySize, DefaultHistorySize),
   idleTimeout |-> OrDefault(options.idleTimeout, DefaultIdleTimeout),
   orphanTimeout |-> OrDefault(options.orphanTimeout, DefaultOrphanTimeout),
   historyEnabled |-> options.historyEnabled]

\* ---------------------------------------------------------- SessionManager
\* m is the state the manager's methods read and change:
\*   sessions          sessionId -> SharedSession (the session index)
\*   clientToSessions  clientId -> set of sessionIds
\*   orphanTimers      sessionId -> handle returned by setTimeout
\*   timeouts          the armed setTimeout handles: records [h, sid,
\*                     delay], sid the session the callback closes over,
\*                     delay the milliseconds setTimeout was given
\*   pty               sessionId -> "running" | "killed" | "exited"
\*   ptySize           sessionId -> the columns and rows of its PTY
\*   events            the 'sessionClosed' events emitted during the current
\*                     handler: records [sessionId, reason]
\*   ptyLeaked         a PTY was spawned that no session refers to
NoOutput == [c \in Clients |-> <<>>]

Cat(o1, o2) == [c \in Clients |-> o1[c] \o o2[c]]

Frame(type, sid, arg) == [type |-> type, sessionId |-> sid, arg |-> arg]

FreshHandle(m) ==
  CHOOSE h \in 1..(Cardinality(m.timeouts) + Cardinality(DOMAIN m.orphanTimers) + 1) :
    /\ h \notin {t.h : t \in m.timeouts}
    /\ h \notin Range(m.orphanTimers)

trackClientSession(c2s, clientId, sessionId) ==
  IF clientId \in DOMAIN c2s
  THEN [c2s EXCEPT ![clientId] = @ \cup {sessionId}]
  ELSE c2s @@ (clientId :> {sessionId})

\* clientSessions.delete(sessionId), and the entry itself when it is empty.
untrackClientSession(c2s, clientId, sessionId) ==
  IF clientId \notin DOMAIN c2s THEN c2s
  ELSE IF c2s[clientId] \ {sessionId} = {} THEN Without(c2s, clientId)
       ELSE [c2s EXCEPT ![clientId] = @ \ {sessionId}]

RECURSIVE untrackAll(_, _, _)
untrackAll(c2s, clientIds, sessionId) ==
  IF clientIds = {} THEN c2s
  ELSE LET c == CHOOSE x \in clientIds : TRUE
       IN untrackAll(untrackClientSession(c2s, c, sessionId),
                     clientIds \ {c}, sessionId)

\* clearOrphanTimer that forgets clearTimeout: the entry is deleted, the
\* timer stays armed.
clearOrphanTimer_KeepsTimeout(m, sessionId) ==
  [m EXCEPT !.orphanTimers = Without(@, sessionId)]

clearOrphanTimer(m, sessionId) ==
  IF sessionId \in DOMAIN m.orphanTimers
  THEN [m EXCEPT !.timeouts = {t \in @ : t.h # m.orphanTimers[sessionId]},
                 !.orphanTimers = Without(@, sessionId)]
  ELSE m

\* pty.kill(): a running child is signalled and will report its exit.
ptyKill(state) == IF state = "running" THEN "killed" ELSE state

\* closeSession that leaves clientToSessions alone.
closeSession_KeepsIndex(m, sessionId, reason) ==
  IF sessionId \notin DOMAIN m.sessions THEN m
  ELSE LET m1 == clearOrphanTimer(m, sessionId)
       IN [m1 EXCEPT
             !.pty[sessionId] = ptyKill(@),
             !.sessions = Without(@, sessionId),
             !.events = Append(@, [sessionId |-> sessionId,
                                   reason |-> reason])]

closeSession(m, sessionId, reason) ==
  IF sessionId \notin DOMAIN m.sessions THEN m
  ELSE LET m1 == clearOrphanTimer(m, sessionId)
       IN [m1 EXCEPT
             !.pty[sessionId] = ptyKill(@),
             !.clientToSessions =
                untrackAll(@, m.sessions[sessionId].clients, sessionId),
             !.sessions = Without(@, sessionId),
             !.events = Append(@, [sessionId |-> sessionId,
                                   reason |-> reason])]

createSessionThrows(m) ==
  Cardinality(DOMAIN m.sessions) >= Config.maxSessionsTotal

\* createSession, when it does not throw; the PTY is already spawned.
createSession(m, id, ownerId, allowJoin, enableHistory) ==
  LET session ==
        [clients |-> {ownerId},
         owner |-> ownerId,
         accepting |-> allowJoin,
         historyBuffer |-> NewCircularBuffer(Config.historySize),
         historyEnabled |-> enableHistory /\ Config.historyEnabled,
         orphanedAt |-> FALSE,
         cols |-> DefaultCols,
         rows |-> DefaultRows]
  IN [m EXCEPT
        !.clientToSessions = trackClientSession(@, ownerId, id),
        !.sessions = (id :> session) @@ @]

handleOrphanedSession(m, sessionId) ==
  LET h == FreshHandle(m)
  IN [m EXCEPT
        !.sessions[sessionId].orphanedAt = TRUE,
        !.timeouts = @ \cup {[h |-> h, sid |-> sessionId,
                               delay |-> Config.orphanTimeout]},
        !.orphanTimers = IF sessionId \in DOMAIN @
                         THEN [@ EXCEPT ![sessionId] = h]
                         ELSE @ @@ (sessionId :> h)]

\* addClient's checks without the capacity check.
addClientOk_NoCapacity(m, sessionId, clientId) ==
  /\ sessionId \in DOMAIN m.sessions
  /\ m.sessions[sessionId].accepting

addClientOk(m, sessionId, clientId) ==
  /\ sessionId \in DOMAIN m.sessions
  /\ m.sessions[sessionId].accepting
  /\ Cardinality(m.sessions[sessionId].clients) < Config.maxClientsPerSession

\* addClient that clears orphanedAt and leaves the orphan timer armed.
addClient_KeepsTimer(m, sessionId, clientId) ==
  IF ~addClientOk(m, sessionId, clientId) THEN m
  ELSE [m EXCEPT
          !.sessions[sessionId].orphanedAt = FALSE,
          !.sessions[sessionId].clients = @ \cup {clientId},
          !.clientToSessions = trackClientSession(@, clientId, sessionId)]

\* addClient that records the session in the client's index entry before
\* it checks anything.
addClient_TracksBeforeChecks(m, sessionId, clientId) ==
  LET m0 == [m EXCEPT
               !.clientToSessions = trackClientSession(@, clientId, sessionId)]
  IN IF ~addClientOk(m, sessionId, clientId) THEN m0
     ELSE LET m1 == IF m.sessions[sessionId].orphanedAt
                    THEN clearOrphanTimer(
                           [m0 EXCEPT !.sessions[sessionId].orphanedAt = FALSE],
                           sessionId)
                    ELSE m0
          IN [m1 EXCEPT !.sessions[sessionId].clients = @ \cup {clientId}]

\* addClient that passes its checks and inserts no Client Record.
addClient_NoRosterEntry(m, sessionId, clientId) ==
  IF ~addClientOk(m, sessionId, clientId) THEN m
  ELSE LET m1 == IF m.sessions[sessionId].orphanedAt
                 THEN clearOrphanTimer(
                        [m EXCEPT !.sessions[sessionId].orphanedAt = FALSE],
                        sessionId)
                 ELSE m
       IN [m1 EXCEPT
             !.clientToSessions = trackClientSession(@, clientId, sessionId)]

\* addClient; its return value is addClientOk.
addClient(m, sessionId, clientId) ==
  IF ~addClientOk(m, sessionId, clientId) THEN m
  ELSE LET m1 == IF m.sessions[sessionId].orphanedAt
                 THEN clearOrphanTimer(
                        [m EXCEPT !.sessions[sessionId].orphanedAt = FALSE],
                        sessionId)
                 ELSE m
       IN [m1 EXCEPT
             !.sessions[sessionId].clients = @ \cup {clientId},
             !.clientToSessions = trackClientSession(@, clientId, sessionId)]

\* removeClient that closes a session whose roster it empties.
removeClient_ClosesEmptied(m, sessionId, clientId) ==
  IF sessionId \notin DOMAIN m.sessions THEN m
  ELSE IF clientId \notin m.sessions[sessionId].clients THEN m
  ELSE LET m1 == [m EXCEPT
                    !.sessions[sessionId].clients = @ \ {clientId},
                    !.clientToSessions =
                       untrackClientSession(@, clientId, sessionId)]
       IN IF m1.sessions[sessionId].clients = {}
          THEN closeSession(m1, sessionId, "orphan_timeout")
          ELSE m1

\* removeClient that hands the session to a remaining client when the
\* owner is removed.
removeClient_TransfersOwner(m, sessionId, clientId) ==
  IF sessionId \notin DOMAIN m.sessions THEN m
  ELSE IF clientId \notin m.sessions[sessionId].clients THEN m
  ELSE LET rest == m.sessions[sessionId].clients \ {clientId}
           m1 == [m EXCEPT
                    !.sessions[sessionId].clients = rest,
                    !.sessions[sessionId].owner =
                       IF @ = clientId /\ rest # {}
                       THEN CHOOSE c \in rest : TRUE ELSE @,
                    !.clientToSessions =
                       untrackClientSession(@, clientId, sessionId)]
       IN IF rest = {}
          THEN handleOrphanedSession(m1, sessionId)
          ELSE m1

removeClient(m, sessionId, clientId) ==
  IF sessionId \notin DOMAIN m.sessions THEN m
  ELSE IF clientId \notin m.sessions[sessionId].clients THEN m
  ELSE LET m1 == [m EXCEPT
                    !.sessions[sessionId].clients = @ \ {clientId},
                    !.clientToSessions =
                       untrackClientSession(@, clientId, sessionId)]
       IN IF m1.sessions[sessionId].clients = {}
          THEN handleOrphanedSession(m1, sessionId)
          ELSE m1

RECURSIVE removeClientFrom(_, _, _)
removeClientFrom(m, sessionIds, clientId) ==
  IF sessionIds = {} THEN m
  ELSE LET s == CHOOSE x \in sessionIds : TRUE
       IN removeClientFrom(removeClient(m, s, clientId),
                           sessionIds \ {s}, clientId)

removeClientFromAllSessions(m, clientId) ==
  IF clientId \notin DOMAIN m.clientToSessions THEN m
  ELSE removeClientFrom(m, m.clientToSessions[clientId], clientId)

getClientSessions(m, clientId) ==
  IF clientId \in DOMAIN m.clientToSessions
  THEN m.clientToSessions[clientId] ELSE {}

isClientInSession(m, sessionId, clientId) ==
  /\ sessionId \in DOMAIN m.sessions
  /\ clientId \in m.sessions[sessionId].clients

\* The frames broadcastToSession sends: one to every roster client other
\* than excludeClientId whose socket has readyState OPEN.
broadcastToSession(m, sessionId, message, excludeClientId) ==
  [c \in Clients |->
     IF /\ sessionId \in DOMAIN m.sessions
        /\ c \in m.sessions[sessionId].clients
        /\ c # excludeClientId
        /\ wsState[c] = "open"
     THEN <<message>> ELSE <<>>]

\* ws.send(message) on one client's socket.
sendTo(clientId, message) ==
  [c \in Clients |-> IF c = clientId THEN <<message>> ELSE <<>>]

appendHistory(m, sessionId, data) ==
  IF sessionId \in DOMAIN m.sessions /\ m.sessions[sessionId].historyEnabled
  THEN [m EXCEPT !.sessions[sessionId].historyBuffer = BufferAppend(@, data)]
  ELSE m

getHistory(m, sessionId, limit) ==
  IF sessionId \notin DOMAIN m.sessions
     \/ ~m.sessions[sessionId].historyEnabled
  THEN <<>>
  ELSE BufferToString(m.sessions[sessionId].historyBuffer, limit)

\* toSharedSessionInfo: the fields the model follows.
toSharedSessionInfo(m, sessionId) ==
  [sessionId |-> sessionId,
   clientCount |-> Cardinality(m.sessions[sessionId].clients),
   accepting |-> m.sessions[sessionId].accepting,
   ownerId |-> m.sessions[sessionId].owner]

\* ---------------------------------------------------------- TerminalServer
\* A handler's result: the manager state it leaves, the frames it sent and
\* the pty.write() calls it made.
Result(m, out, calls) == [m |-> m, out |-> out, calls |-> calls]

NoSid == 0

ErrorFrame(text) == Frame("error", NoSid, text)

\* spawnSession for a local shell. valid: the shell and the working
\* directory pass validation and pty.spawn() does not throw.
spawnSession(m, clientId, sessionId, valid, allowJoin, enableHistory) ==
  IF Cardinality(getClientSessions(m, clientId)) >= Config.maxSessionsPerClient
  THEN Result(m, sendTo(clientId, ErrorFrame("Maximum sessions reached")), <<>>)
  ELSE IF ~valid
  THEN Result(m, sendTo(clientId, ErrorFrame("not allowed")), <<>>)
  ELSE IF createSessionThrows(m)
  THEN Result([m EXCEPT !.ptyLeaked = TRUE],
              sendTo(clientId,
                     ErrorFrame("Maximum number of sessions reached")),
              <<>>)
  ELSE Result(createSession([m EXCEPT
                               !.pty[sessionId] = "running",
                               !.ptySize[sessionId] =
                                  <<DefaultCols, DefaultRows>>],
                            sessionId, clientId, allowJoin, enableHistory),
              sendTo(clientId, Frame("spawned", sessionId, <<>>)),
              <<>>)

handleJoinSession(m, clientId, sessionId, requestHistory, historyLimit) ==
  IF sessionId \notin DOMAIN m.sessions
  THEN Result(m, sendTo(clientId, ErrorFrame("Session not found")), <<>>)
  ELSE IF ~m.sessions[sessionId].accepting
  THEN Result(m, sendTo(clientId, ErrorFrame("Session is not accepting")),
              <<>>)
  ELSE IF ~addClientOk(m, sessionId, clientId)
  THEN Result(addClient(m, sessionId, clientId),
              sendTo(clientId, ErrorFrame("Failed to join session")), <<>>)
  ELSE LET m1 == addClient(m, sessionId, clientId)
           history ==
             IF requestHistory /\ m1.sessions[sessionId].historyEnabled
             THEN [defined |-> TRUE,
                   str |-> getHistory(m1, sessionId, historyLimit)]
             ELSE [defined |-> FALSE, str |-> <<>>]
           joined == Frame("joined", sessionId,
                           [session |-> toSharedSessionInfo(m1, sessionId),
                            history |-> history])
           clientJoined ==
             Frame("clientJoined", sessionId,
                   Cardinality(m1.sessions[sessionId].clients))
       IN Result(m1,
                 Cat(sendTo(clientId, joined),
                     broadcastToSession(m1, sessionId, clientJoined, clientId)),
                 <<[sessionId |-> sessionId, data |-> "newline"]>>)

handleLeaveSession(m, clientId, sessionId) ==
  IF sessionId \notin DOMAIN m.sessions
  THEN Result(m, sendTo(clientId, ErrorFrame("Session not found")), <<>>)
  ELSE LET m1 == removeClient(m, sessionId, clientId)
           clientLeft ==
             Frame("clientLeft", sessionId,
                   Cardinality(m1.sessions[sessionId].clients))
       IN Result(m1,
                 Cat(sendTo(clientId, Frame("left", sessionId, <<>>)),
                     broadcastToSession(m1, sessionId, clientLeft, NoClient)),
                 <<>>)

\* writeToSession without the roster check.
writeToSession_NoRosterCheck(m, sessionId, clientId) ==
  IF sessionId \notin DOMAIN m.sessions THEN Result(m, NoOutput, <<>>)
  ELSE Result(m, NoOutput,
              <<[sessionId |-> sessionId, data |-> "input"]>>)

writeToSession(m, sessionId, clientId) ==
  IF sessionId \notin DOMAIN m.sessions THEN Result(m, NoOutput, <<>>)
  ELSE IF ~isClientInSession(m, sessionId, clientId)
  THEN Result(m, NoOutput, <<>>)
  ELSE Result(m, NoOutput,
              <<[sessionId |-> sessionId, data |-> "input"]>>)

\* resizeSession: the session of the index and its PTY take the geometry,
\* whoever asks.
resizeSession(m, sessionId, cols, rows) ==
  IF sessionId \notin DOMAIN m.sessions THEN Result(m, NoOutput, <<>>)
  ELSE Result([m EXCEPT !.sessions[sessionId].cols = cols,
                        !.sessions[sessionId].rows = rows,
                        !.ptySize[sessionId] = <<cols, rows>>],
              NoOutput,
              <<[sessionId |-> sessionId, data |-> "resize"]>>)

\* TerminalServer.closeSession without the owner check.
serverCloseSession_AnyClient(m, sessionId, clientId) ==
  IF sessionId \notin DOMAIN m.sessions THEN Result(m, NoOutput, <<>>)
  ELSE Result(closeSession(m, sessionId, "owner_closed"),
              broadcastToSession(m, sessionId,
                                 Frame("sessionClosed", sessionId,
                                       "owner_closed"),
                                 NoClient),
              <<>>)

\* TerminalServer.closeSession: the handler of a close message.
serverCloseSession(m, sessionId, clientId) ==
  IF sessionId \notin DOMAIN m.sessions THEN Result(m, NoOutput, <<>>)
  ELSE IF m.sessions[sessionId].owner # clientId
  THEN Result(removeClient(m, sessionId, clientId), NoOutput, <<>>)
  ELSE Result(closeSession(m, sessionId, "owner_closed"),
              broadcastToSession(m, sessionId,
                                 Frame("sessionClosed", sessionId,
                                       "owner_closed"),
                                 NoClient),
              <<>>)

handleListSessions(m, clientId) ==
  Result(m,
         sendTo(clientId,
                Frame("sessionList", NoSid,
                      {toSharedSessionInfo(m, s) : s \in DOMAIN m.sessions})),
         <<>>)

\* The onData handler setupSessionHandlers registers.
onData(m, sessionId, data) ==
  Result(appendHistory(m, sessionId, data),
         broadcastToSession(m, sessionId, Frame("data", sessionId, data),
                            NoClient),
         <<>>)

\* An onExit handler that broadcasts and leaves the session in the index.
onExit_KeepsSession(m, sessionId, exitCode) ==
  Result(m,
         Cat(broadcastToSession(m, sessionId,
                                Frame("exit", sessionId, exitCode), NoClient),
             broadcastToSession(m, sessionId,
                                Frame("sessionClosed", sessionId,
                                      "process_exit"),
                                NoClient)),
         <<>>)

\* The onExit handler setupSessionHandlers registers.
onExit(m, sessionId, exitCode) ==
  Result(closeSession(m, sessionId, "process_exit"),
         Cat(broadcastToSession(m, sessionId,
                                Frame("exit", sessionId, exitCode), NoClient),
             broadcastToSession(m, sessionId,
                                Frame("sessionClosed", sessionId,
                                      "process_exit"),
                                NoClient)),
         <<>>)

\* A timer callback that closes nothing.
orphanTimerCallback_NoClose(m, sessionId) == m

\* The callback handleOrphanedSession hands to setTimeout.
orphanTimerCallback(m, sessionId) ==
  IF sessionId \in DOMAIN m.sessions /\ m.sessions[sessionId].clients = {}
  THEN closeSession(m, sessionId, "orphan_timeout")
  ELSE m

\* cleanupSessions. idle: the sessions whose lastActivity is older than
\* idleTimeout when the interval ticks.
RECURSIVE cleanupLoop(_, _, _)
cleanupLoop(m, out, sessionIds) ==
  IF sessionIds = {} THEN Result(m, out, <<>>)
  ELSE LET s == CHOOSE x \in sessionIds : TRUE
       IN cleanupLoop(closeSession(m, s, "idle_timeout"),
                      Cat(out, broadcastToSession(m, s, Frame("exit", s, -1),
                                                  NoClient)),
                      sessionIds \ {s})

cleanupSessions(m, idle) ==
  IF Config.idleTimeout = 0 THEN Result(m, NoOutput, <<>>)
  ELSE cleanupLoop(m, NoOutput, idle)

\* ------------------------------------------------------------------ state
Options(limits) ==
  [maxClientsPerSession : limits,
   maxSessionsTotal : limits,
   maxSessionsPerClient : {0},
   historySize : {OptHistorySize},
   idleTimeout : {0},
   orphanTimeout : {0},
   historyEnabled : BOOLEAN]

\* The server as its constructor leaves it, for one of the given options.
Constructed(opts) ==
  /\ options \in opts
  /\ cleanupInterval = TRUE
  /\ sm = [sessions |-> <<>>,
           clientToSessions |-> <<>>,
           orphanTimers |-> <<>>,
           timeouts |-> {},
           pty |-> [s \in Sids |-> "none"],
           ptySize |-> [s \in Sids |-> <<>>],
           events |-> <<>>,
           ptyLeaked |-> FALSE]
  /\ wsState = [c \in Clients |-> "init"]
  /\ inGate = [c \in Clients |-> 0]
  /\ nextSid = 1
  /\ emitted = [s \in Sids |-> 0]
  /\ sent = NoOutput
  /\ ptyCalls = <<>>
  /\ last = [op |-> "init", c |-> NoClient, s |-> NoSid, was |-> {}]

\* A server alone: no provider, buffer or client object is under study.
InitWith(opts) ==
  /\ policy = NoPolicy
  /\ buffer = NoBuffer
  /\ client = NoTerminalClient
  /\ Constructed(opts)

\* The gate of a server whose provider authenticates nobody at connection
\* time and lets anonymous clients in; nothing is suspended.
OpenGate ==
  [provider |-> TRUE, requireAuth |-> FALSE, allowAnonymous |-> TRUE,
   wss |-> TRUE, authPending |-> {}, clientUsers |-> {},
   pending |-> [c \in Clients |-> <<>>]]

Init ==
  /\ gate = OpenGate
  /\ InitWith({o \in Options(1..MaxLimitOpt) :
                 /\ o.maxClientsPerSession = o.maxSessionsTotal
                 /\ o.historyEnabled \/ o.maxSessionsTotal = 1})

\* Every value of the two limits, 0 included; history is switched off.
InitLimits ==
  /\ gate = OpenGate
  /\ InitWith({o \in Options(0..MaxLimitOpt) : ~o.historyEnabled})

\* A server whose clients may have one session each.
InitCap ==
  /\ gate = OpenGate
  /\ InitWith({[o EXCEPT !.maxSessionsPerClient = 1] :
                 o \in {x \in Options({MaxLimitOpt}) : ~x.historyEnabled}})

\* What is remembered of the last handler that ran: the operation, the
\* client and the session it names, and the roster that session had when
\* the handler started.
Event(op, c, s) ==
  [op |-> op, c |-> c, s |-> s,
   was |-> IF s \in DOMAIN sm.sessions THEN sm.sessions[s].clients ELSE {}]

\* The manager as a handler finds it: no event emitted yet.
Now == [sm EXCEPT !.events = <<>>]

\* The state a handler leaves behind.
Ran(r, ev) ==
  /\ sm' = r.m
  /\ sent' = r.out
  /\ ptyCalls' = r.calls
  /\ last' = ev

\* A message of client c reaches its handler: its socket is open, or the
\* message was suspended in checkPermission when the socket closed.
Dispatched(c) ==
  /\ \/ wsState[c] = "open"
     \/ wsState[c] = "closed" /\ inGate[c] > 0
  /\ inGate' = IF wsState[c] = "closed"
               THEN [inGate EXCEPT ![c] = @ - 1] ELSE inGate

\* ---------------------------------------------------------------- actions
\* handleConnection: the connection is accepted and its handlers registered.
Connect(c) ==
  /\ wsState[c] = "init"
  /\ wsState' = [wsState EXCEPT ![c] = "open"]
  /\ Ran(Result(Now, sendTo(c, Frame("serverInfo", NoSid, <<>>)), <<>>),
         Event("connect", c, NoSid))
  /\ UNCHANGED <<outside, cleanupInterval, gate, options, inGate, nextSid, emitted>>

SpawnMsg(c) ==
  /\ Dispatched(c)
  /\ nextSid <= MaxSid
  /\ \E valid \in BOOLEAN, allowJoin \in BOOLEAN :
       \E r \in {spawnSession(Now, c, nextSid, valid, allowJoin, TRUE)} :
          /\ Ran(r, Event("spawn", c, nextSid))
          /\ nextSid' = IF nextSid \in DOMAIN r.m.sessions
                        THEN nextSid + 1 ELSE nextSid
  /\ UNCHANGED <<outside, cleanupInterval, gate, options, wsState, emitted>>

JoinMsg(c, s) ==
  /\ Dispatched(c)
  /\ \E requestHistory \in BOOLEAN, historyLimit \in 0..1 :
       \E r \in {handleJoinSession(Now, c, s, requestHistory, historyLimit)} :
          Ran(r, Event("join", c, s))
  /\ UNCHANGED <<outside, cleanupInterval, gate, options, wsState, nextSid, emitted>>

LeaveMsg(c, s) ==
  /\ Dispatched(c)
  /\ \E r \in {handleLeaveSession(Now, c, s)} : Ran(r, Event("leave", c, s))
  /\ UNCHANGED <<outside, cleanupInterval, gate, options, wsState, nextSid, emitted>>

DataMsg(c, s) ==
  /\ Dispatched(c)
  /\ \E r \in {writeToSession(Now, s, c)} : Ran(r, Event("data", c, s))
  /\ UNCHANGED <<outside, cleanupInterval, gate, options, wsState, nextSid, emitted>>

CloseMsg(c, s) ==
  /\ Dispatched(c)
  /\ \E r \in {serverCloseSession(Now, s, c)} : Ran(r, Event("close", c, s))
  /\ UNCHANGED <<outside, cleanupInterval, gate, options, wsState, nextSid, emitted>>

\* The event of a resize message: the geometry it asks for.
Resized(c, s, cols, rows) ==
  [op |-> "resize", c |-> c, s |-> s,
   was |-> IF s \in DOMAIN sm.sessions THEN sm.sessions[s].clients ELSE {},
   cols |-> cols, rows |-> rows]

ResizeMsg(c, s, cols, rows) ==
  /\ Dispatched(c)
  /\ \E r \in {resizeSession(Now, s, cols, rows)} :
       Ran(r, Resized(c, s, cols, rows))
  /\ UNCHANGED <<outside, cleanupInterval, gate, options, wsState, nextSid, emitted>>

ListSessionsMsg(c) ==
  /\ Dispatched(c)
  /\ \E r \in {handleListSessions(Now, c)} :
       Ran(r, Event("listSessions", c, NoSid))
  /\ UNCHANGED <<outside, cleanupInterval, gate, options, wsState, nextSid, emitted>>

\* The 'close' event of a client's socket. k messages of the client are
\* still suspended in checkPermission and are dispatched afterwards.
TransportClose(c) ==
  /\ wsState[c] = "open"
  /\ wsState' = [wsState EXCEPT ![c] = "closed"]
  /\ \E k \in 0..MaxInGate : inGate' = [inGate EXCEPT ![c] = k]
  /\ \E r \in {Result(removeClientFromAllSessions(Now, c), NoOutput, <<>>)} :
       Ran(r, Event("transportClose", c, NoSid))
  /\ UNCHANGED <<outside, cleanupInterval, gate, options, nextSid, emitted>>

\* A data event of the PTY of session s. The characters of a PTY's output
\* are numbered 1, 2, ... in the order the PTY emits them; the numbering
\* stops once the session is closed, when the output reaches nobody.
PtyData(s) ==
  /\ sm.pty[s] \in {"running", "killed"}
  /\ \E len \in 1..MaxChunk :
       /\ emitted[s] + len <= MaxEmit
       /\ emitted' = IF s \in DOMAIN sm.sessions
                     THEN [emitted EXCEPT ![s] = @ + len] ELSE emitted
       /\ \E r \in {onData(Now, s, [i \in 1..len |-> emitted[s] + i])} :
            Ran(r, Event("ptyData", NoClient, s))
  /\ UNCHANGED <<outside, cleanupInterval, gate, options, wsState, inGate, nextSid>>

\* The exit event of the PTY of session s: the child exited by itself or
\* after pty.kill().
PtyExit(s) ==
  /\ sm.pty[s] \in {"running", "killed"}
  /\ \E r \in {onExit([Now EXCEPT !.pty[s] = "exited"], s, 0)} :
       Ran(r, Event("ptyExit", NoClient, s))
  /\ UNCHANGED <<outside, cleanupInterval, gate, options, wsState, inGate, nextSid, emitted>>

\* An armed orphan timer fires.
OrphanTimeout(t) ==
  /\ t \in sm.timeouts
  /\ \E r \in {Result(orphanTimerCallback([Now EXCEPT !.timeouts = @ \ {t}],
                                          t.sid),
                      NoOutput, <<>>)} :
       Ran(r, Event("orphanTimeout", NoClient, t.sid))
  /\ UNCHANGED <<outside, cleanupInterval, gate, options, wsState, inGate, nextSid, emitted>>

\* A tick of the cleanup interval. Time is not modelled: any set of live
\* sessions may have been idle for longer than idleTimeout at the tick.
IdleSweep ==
  /\ cleanupInterval
  /\ \E idle \in SUBSET DOMAIN sm.sessions :
       \E r \in {cleanupSessions(Now, idle)} :
          Ran(r, Event("idleSweep", NoClient, NoSid))
  /\ UNCHANGED <<outside, cleanupInterval, gate, options, wsState, inGate, nextSid, emitted>>

Next ==
  \/ \E c \in Clients : Connect(c)
  \/ \E c \in Clients : SpawnMsg(c)
  \/ \E c \in Clients, s \in Sids : JoinMsg(c, s)
  \/ \E c \in Clients, s \in Sids : LeaveMsg(c, s)
  \/ \E c \in Clients, s \in Sids : DataMsg(c, s)
  \/ \E c \in Clients, s \in Sids : CloseMsg(c, s)
  \/ \E c \in Clients, s \in Sids :
       ResizeMsg(c, s, DefaultCols, DefaultRows)
  \/ \E c \in Clients : ListSessionsMsg(c)
  \/ \E c \in Clients : TransportClose(c)
  \/ \E s \in Sids : PtyData(s)
  \/ \E s \in Sids : PtyExit(s)
  \/ \E t \in sm.timeouts : OrphanTimeout(t)
  \/ IdleSweep

Spec == Init /\ [][Next]_vars

\* The handlers that read or change the session index, the rosters and the
\* orphan timers: all but the PTY's output and the clients' input.
NextControl ==
  \/ \E c \in Clients : Connect(c)
  \/ \E c \in Clients : SpawnMsg(c)
  \/ \E c \in Clients, s \in Sids : JoinMsg(c, s)
  \/ \E c \in Clients, s \in Sids : LeaveMsg(c, s)
  \/ \E c \in Clients, s \in Sids : CloseMsg(c, s)
  \/ \E c \in Clients : ListSessionsMsg(c)
  \/ \E c \in Clients : TransportClose(c)
  \/ \E s \in Sids : PtyExit(s)
  \/ \E t \in sm.timeouts : OrphanTimeout(t)
  \/ IdleSweep

SpecLimits == InitLimits /\ [][NextControl]_vars

SpecCap == InitCap /\ [][NextControl]_vars

\* The event loop runs the callback of an armed timer once it is due.
TimerFires(s) == \E t \in sm.timeouts : t.sid = s /\ OrphanTimeout(t)

SpecTimers ==
  Init /\ [][NextControl]_vars /\ \A s \in Sids : WF_vars(TimerFires(s))

\* ------------------------------------------------- authentication and gate
\* gate is the record
\*   provider        an authProvider is configured
\*   requireAuth     config.requireAuth
\*   allowAnonymous  config.allowAnonymous
\*   wss             this.wss is set: the server was attached or listens;
\*                   it is null when handleConnection is called for sockets
\*                   of a WebSocketServer the application upgrades itself
\*   authPending     authPendingClients
\*   clientUsers     the client ids that have a user context
\*   pending         per client, the messages whose handleMessage is
\*                   suspended in an await of the provider, in arrival
\*                   order: authenticateCredentials for an auth message,
\*                   checkPermission for any other
GateMessages ==
  [type : {"auth", "spawn"}, s : {NoSid}]
    \cup [type : {"join", "leave", "data", "close"}, s : 1..MaxGateSid]

AuthFrame(success, text) ==
  Frame("authResponse", NoSid, [success |-> success, error |-> text])

\* The permission argument sendPermissionDenied is called without.
NoPermission == "undefined"

DeniedFrame(operation, text, permission) ==
  Frame("permissionDenied", NoSid,
        [operation |-> operation, error |-> text, permission |-> permission])

\* getOperationFromMessage: the operation name of a message type.
getOperationFromMessage(type) ==
  CASE type = "spawn" -> "spawn_session"
    [] type = "data" -> "write_session"
    [] type = "resize" -> "resize_session"
    [] type = "close" -> "close_session"
    [] type = "join" -> "join_session"
    [] type = "leave" -> "leave_session"
    [] type = "listSessions" -> "list_sessions"
    [] type = "listContainers" -> "list_containers"
    [] OTHER -> type

ServerInfo == Frame("serverInfo", NoSid, <<>>)

\* What handleConnection leaves: the gate, the socket and the frames sent.
Conn(g, ws, frame) == [gate |-> g, ws |-> ws, frame |-> frame]

\* handleConnection that never marks a client auth-pending.
handleConnection_NoPendingMark(g, clientId, conn) ==
  IF g.provider /\ conn = "throws" /\ g.requireAuth
  THEN Conn(g, "closed", AuthFrame(FALSE, "authentication error"))
  ELSE IF ~g.provider /\ g.requireAuth
  THEN Conn(g, "closed",
            ErrorFrame("Authentication is required but no provider configured"))
  ELSE IF g.provider /\ conn = "user"
  THEN Conn([g EXCEPT !.clientUsers = @ \cup {clientId}], "open", ServerInfo)
  ELSE IF ~g.allowAnonymous /\ g.provider
  THEN Conn(g, "closed", AuthFrame(FALSE, "Anonymous access not permitted"))
  ELSE Conn(g, "open", ServerInfo)

\* handleConnection up to the registration of the socket's handlers. conn:
\* what the provider's authenticateConnection does: it yields a user, yields
\* none, or throws. A socket closed here has no handlers registered.
handleConnection(g, clientId, conn) ==
  LET marked == IF g.provider /\ conn = "none" /\ g.requireAuth
                THEN [g EXCEPT !.authPending = @ \cup {clientId}]
                ELSE g
  IN IF g.provider /\ conn = "throws" /\ g.requireAuth
     THEN Conn(g, "closed", AuthFrame(FALSE, "authentication error"))
     ELSE IF ~g.provider /\ g.requireAuth
     THEN Conn(g, "closed",
               ErrorFrame("Authentication is required but no provider configured"))
     ELSE IF g.provider /\ conn = "user"
     THEN Conn([g EXCEPT !.clientUsers = @ \cup {clientId}], "open",
               ServerInfo)
     ELSE IF ~g.allowAnonymous /\ g.provider
     THEN Conn(marked, "closed",
               AuthFrame(FALSE, "Anonymous access not permitted"))
     ELSE Conn(marked, "open", ServerInfo)

\* The template literal `Permission denied for ${operation}`.
DeniedFor(operation) ==
  CASE operation = "spawn_session" -> "Permission denied for spawn_session"
    [] operation = "write_session" -> "Permission denied for write_session"
    [] operation = "resize_session" -> "Permission denied for resize_session"
    [] operation = "close_session" -> "Permission denied for close_session"
    [] operation = "join_session" -> "Permission denied for join_session"
    [] operation = "leave_session" -> "Permission denied for leave_session"
    [] operation = "list_sessions" -> "Permission denied for list_sessions"
    [] operation = "list_containers"
         -> "Permission denied for list_containers"

\* sendPermissionDenied whose operation field is the required permission.
sendPermissionDenied_OperationName(g, clientId, operation, text, permission) ==
  IF g.wss /\ wsState[clientId] # "closed"
  THEN sendTo(clientId,
              DeniedFrame(getOperationFromMessage(operation), text, permission))
  ELSE NoOutput

\* sendPermissionDenied: the frame goes to the socket getWebSocketByClientId
\* finds among this.wss.clients, if any.
sendPermissionDenied(g, clientId, operation, text, permission) ==
  IF g.wss /\ wsState[clientId] # "closed"
  THEN sendTo(clientId, DeniedFrame(operation, text, permission))
  ELSE NoOutput

\* The event of a message that came to the permission check.
Checked(op, c, msg) ==
  [op |-> op, c |-> c, s |-> msg.s, type |-> msg.type,
   was |-> IF msg.s \in DOMAIN sm.sessions THEN sm.sessions[msg.s].clients
           ELSE {}]

\* The switch of handleMessage.
dispatch(m, clientId, msg, sessionId) ==
  CASE msg.type = "spawn" -> spawnSession(m, clientId, sessionId, TRUE, TRUE,
                                          FALSE)
    [] msg.type = "join" -> handleJoinSession(m, clientId, msg.s, FALSE, 0)
    [] msg.type = "leave" -> handleLeaveSession(m, clientId, msg.s)
    [] msg.type = "data" -> writeToSession(m, msg.s, clientId)
    [] msg.type = "close" -> serverCloseSession(m, msg.s, clientId)

\* The number of handleMessage calls suspended in an await.
RECURSIVE SuspendedOf(_)
SuspendedOf(cs) ==
  IF cs = {} THEN 0
  ELSE LET c == CHOOSE x \in cs : TRUE
       IN Len(gate.pending[c]) + SuspendedOf(cs \ {c})

Suspended == SuspendedOf(Clients)

RemoveAt(seq, i) == SubSeq(seq, 1, i - 1) \o SubSeq(seq, i + 1, Len(seq))

\* A server with an authProvider, attached or not, and one without.
GateConfigs ==
  {g \in [provider : BOOLEAN, requireAuth : BOOLEAN,
          allowAnonymous : BOOLEAN, wss : BOOLEAN,
          authPending : {{}}, clientUsers : {{}},
          pending : {[c \in Clients |-> <<>>]}] :
     /\ ~g.provider => g.allowAnonymous /\ g.wss
     /\ ~g.wss => ~g.requireAuth /\ g.allowAnonymous}

InitGate ==
  /\ gate \in GateConfigs
  /\ InitWith({o \in Options({MaxLimitOpt}) : ~o.historyEnabled})

\* handleConnection.
Connection(c) ==
  /\ wsState[c] = "init"
  /\ \E conn \in {"user", "none", "throws"} :
       \E r \in {handleConnection(gate, c, conn)} :
          /\ gate' = r.gate
          /\ wsState' = [wsState EXCEPT ![c] = r.ws]
          /\ Ran(Result(Now, sendTo(c, r.frame), <<>>),
                 Event("connection", c, NoSid))
  /\ UNCHANGED <<outside, cleanupInterval, options, inGate, nextSid, emitted>>

\* A 'message' event of the socket of client c: handleMessage up to its
\* first await of the provider, or to its end when it awaits nothing.
MessageEvent(c, msg) ==
  /\ wsState[c] = "open"
  /\ IF msg.type = "auth"
     THEN IF ~gate.provider
          THEN /\ Ran(Result(Now,
                             sendTo(c, AuthFrame(FALSE,
                                                 "Authentication not supported")),
                             <<>>),
                      Event("authMessage", c, NoSid))
               /\ UNCHANGED <<gate, nextSid>>
          ELSE /\ Suspended < MaxPending
               /\ gate' = [gate EXCEPT !.pending[c] = Append(@, msg)]
               /\ Ran(Result(Now, NoOutput, <<>>),
                      Event("authMessage", c, NoSid))
               /\ UNCHANGED nextSid
     ELSE IF c \in gate.authPending
     THEN /\ Ran(Result(Now,
                        sendTo(c, AuthFrame(FALSE,
                                 "Authentication required before other operations")),
                        <<>>),
                 Event("message", c, msg.s))
          /\ UNCHANGED <<gate, nextSid>>
     ELSE IF ~gate.provider
     THEN /\ msg.type = "spawn" => nextSid <= MaxGateSid
          /\ \E r \in {dispatch(Now, c, msg, nextSid)} :
               /\ Ran(r, Event("message", c, msg.s))
               /\ nextSid' = IF nextSid \in DOMAIN r.m.sessions
                             THEN nextSid + 1 ELSE nextSid
          /\ UNCHANGED gate
     ELSE IF c \notin gate.clientUsers /\ ~gate.allowAnonymous
     THEN /\ Ran(Result(Now,
                        sendPermissionDenied(gate, c, msg.type,
                                             "Authentication required",
                                             NoPermission),
                        <<>>),
                 Checked("permissionDenied", c, msg))
          /\ UNCHANGED <<gate, nextSid>>
     ELSE /\ Suspended < MaxPending
          /\ gate' = [gate EXCEPT !.pending[c] = Append(@, msg)]
          /\ Ran(Result(Now, NoOutput, <<>>), Event("message", c, msg.s))
          /\ UNCHANGED nextSid
  /\ UNCHANGED <<outside, cleanupInterval, options, wsState, inGate, emitted>>

\* The provider's authenticateCredentials settles for the i-th suspended
\* message of client c: the rest of handleAuthMessage.
AuthResolved(c, i) ==
  /\ i \in 1..Len(gate.pending[c])
  /\ gate.pending[c][i].type = "auth"
  /\ \E success \in BOOLEAN :
       IF success
       THEN /\ gate' = [gate EXCEPT !.pending[c] = RemoveAt(@, i),
                                    !.clientUsers = @ \cup {c},
                                    !.authPending = @ \ {c}]
            /\ Ran(Result(Now,
                          Cat(sendTo(c, ServerInfo),
                              sendTo(c, AuthFrame(TRUE, ""))),
                          <<>>),
                   Event("authResolved", c, NoSid))
            /\ UNCHANGED wsState
       ELSE /\ gate' = [gate EXCEPT !.pending[c] = RemoveAt(@, i)]
            /\ Ran(Result(Now, sendTo(c, AuthFrame(FALSE,
                                                   "Authentication failed")),
                          <<>>),
                   Event("authResolved", c, NoSid))
            /\ wsState' = IF gate.requireAuth /\ wsState[c] = "open"
                          THEN [wsState EXCEPT ![c] = "closing"]
                          ELSE wsState
  /\ UNCHANGED <<outside, cleanupInterval, options, inGate, nextSid, emitted>>

\* The provider's checkPermission settles for the i-th suspended message of
\* client c: the rest of checkPermission and of handleMessage.
PermissionResolved(c, i) ==
  /\ i \in 1..Len(gate.pending[c])
  /\ gate.pending[c][i].type # "auth"
  /\ gate' = [gate EXCEPT !.pending[c] = RemoveAt(@, i)]
  /\ LET msg == gate.pending[c][i]
     IN \E hasPermission \in {"true", "false", "throws"} :
          IF hasPermission = "true"
          THEN /\ msg.type = "spawn" => nextSid <= MaxGateSid
               /\ \E r \in {dispatch(Now, c, msg, nextSid)} :
                    /\ Ran(r, Checked("permissionGranted", c, msg))
                    /\ nextSid' = IF nextSid \in DOMAIN r.m.sessions
                                  THEN nextSid + 1 ELSE nextSid
          ELSE /\ Ran(Result(Now,
                             IF hasPermission = "false"
                             THEN sendPermissionDenied(
                                    gate, c, msg.type,
                                    DeniedFor(getOperationFromMessage(msg.type)),
                                    getOperationFromMessage(msg.type))
                             ELSE sendPermissionDenied(
                                    gate, c, msg.type,
                                    "Permission check failed", NoPermission),
                             <<>>),
                      Checked("permissionDenied", c, msg))
               /\ UNCHANGED nextSid
  /\ UNCHANGED <<outside, cleanupInterval, options, wsState, inGate, emitted>>

\* The 'close' event of a socket whose handlers are registered.
SocketClose(c) ==
  /\ wsState[c] \in {"open", "closing"}
  /\ wsState' = [wsState EXCEPT ![c] = "closed"]
  /\ gate' = [gate EXCEPT !.authPending = @ \ {c}, !.clientUsers = @ \ {c}]
  /\ \E r \in {Result(removeClientFromAllSessions(Now, c), NoOutput, <<>>)} :
       Ran(r, Event("socketClose", c, NoSid))
  /\ UNCHANGED <<outside, cleanupInterval, options, inGate, nextSid, emitted>>

NextGate ==
  \/ \E c \in Clients : Connection(c)
  \/ \E c \in Clients, msg \in GateMessages : MessageEvent(c, msg)
  \/ \E c \in Clients, i \in 1..MaxPending : AuthResolved(c, i)
  \/ \E c \in Clients, i \in 1..MaxPending : PermissionResolved(c, i)
  \/ \E c \in Clients : SocketClose(c)

SpecGate == InitGate /\ [][NextGate]_vars

\* --------------------------------------------------------- auth providers
\* The longest provider list of a CompositeAuthProvider.
MaxProviders == 2

\* Object.values(PERMISSIONS).
PERMISSIONS ==
  {"spawn_session", "join_session", "list_sessions", "write_session",
   "resize_session", "close_session", "docker_exec", "docker_attach",
   "list_containers", "view_all_sessions", "admin"}

\* The default roles of SimpleAuthProvider.
rolePermissions ==
  [admin |-> PERMISSIONS,
   user |-> {"spawn_session", "join_session", "list_sessions",
             "write_session", "resize_session", "close_session"},
   readonly |-> {"join_session", "list_sessions"}]

\* SimpleAuthProvider.addUser: the permissions of a user with the roles.
addUser(roles) == UNION {rolePermissions[role] : role \in roles}

\* The message types handleMessage passes to checkPermission.
MessageTypes ==
  {"spawn", "data", "resize", "close", "join", "leave", "listSessions",
   "listContainers"}

Provider(kind, providers) == [kind |-> kind, providers |-> providers]

\* The built-in providers; a CompositeAuthProvider holds a list of others.
BuiltIn ==
  {Provider(kind, <<>>) :
     kind \in {"NoAuthProvider", "SimpleAuthProvider", "JWTAuthProvider",
               "SessionAuthProvider"}}

Providers ==
  BuiltIn \cup
    {Provider("CompositeAuthProvider", ps) :
       ps \in UNION {[1..n -> BuiltIn] : n \in 0..MaxProviders}}

\* AuthProvider.checkPermission of a built-in provider, for the permissions
\* of the request's user and its operation. No built-in check throws, so a
\* CompositeAuthProvider returns what its first provider returns.
RECURSIVE checkPermission(_, _, _)
checkPermission(provider, permissions, operation) ==
  CASE provider.kind = "NoAuthProvider" -> TRUE
    [] provider.kind = "SimpleAuthProvider" -> operation \in permissions
    [] provider.kind = "JWTAuthProvider" ->
         operation \in permissions \/ "admin" \in permissions
    [] provider.kind = "SessionAuthProvider" -> operation \in permissions
    [] provider.kind = "CompositeAuthProvider" ->
         IF provider.providers = <<>> THEN FALSE
         ELSE checkPermission(Head(provider.providers), permissions,
                              operation)

\* The user contexts: the users of the role table, and permission lists a
\* token or a session store carries.
PermissionSets ==
  {addUser(roles) : roles \in SUBSET {"admin", "user", "readonly"}}
    \cup {{"admin"}, {"admin", "leave_session"}, {"leave_session"}}

\* A server with one of the providers, and a client with a user context; no
\* message was checked yet.
InitPolicy ==
  /\ gate = OpenGate
  /\ Constructed({o \in Options({MaxLimitOpt}) : ~o.historyEnabled})
  /\ buffer = NoBuffer
  /\ client = NoTerminalClient
  /\ policy \in [provider : Providers, permissions : PermissionSets,
                 type : {"none"}, operation : {"none"},
                 hasPermission : {TRUE}, answer : {<<>>}]

\* TerminalServer.checkPermission for a message of the client: the request
\* names the operation of the message type; a refusal of the provider is
\* answered with a permissionDenied frame.
CheckPermission(type) ==
  /\ policy # NoPolicy
  /\ LET operation == getOperationFromMessage(type)
         hasPermission == checkPermission(policy.provider, policy.permissions,
                                          operation)
     IN policy' = [policy EXCEPT
                     !.type = type,
                     !.operation = operation,
                     !.hasPermission = hasPermission,
                     !.answer = IF hasPermission THEN <<>>
                                ELSE <<DeniedFrame(type, DeniedFor(operation),
                                                   operation)>>]
  /\ UNCHANGED <<options, sm, wsState, inGate, nextSid, emitted, sent,
                 ptyCalls, last, gate, cleanupInterval, buffer, client>>

NextPolicy == \E type \in MessageTypes : CheckPermission(type)

SpecPolicy == InitPolicy /\ [][NextPolicy]_vars

\* --------------------------------------------------------------- shutdown
\* The loop of cleanup over this.sessions.keys(), in insertion order.
RECURSIVE closeAll(_, _)
closeAll(m, sessionIds) ==
  IF sessionIds = {} THEN m
  ELSE LET s == CHOOSE x \in sessionIds : \A y \in sessionIds : x <= y
       IN closeAll(closeSession(m, s, "cleanup"), sessionIds \ {s})

\* cleanup that closes the sessions that have clients and no other.
cleanup_SkipsOrphaned(m) ==
  LET m1 == [m EXCEPT
               !.timeouts = {t \in @ : t.h \notin Range(m.orphanTimers)},
               !.orphanTimers = <<>>]
      m2 == closeAll(m1, {s \in DOMAIN m1.sessions :
                            m1.sessions[s].clients # {}})
  IN [m2 EXCEPT !.clientToSessions = <<>>]

\* SessionManager.cleanup.
cleanup(m) ==
  LET m1 == [m EXCEPT
               !.timeouts = {t \in @ : t.h \notin Range(m.orphanTimers)},
               !.orphanTimers = <<>>]
      m2 == closeAll(m1, DOMAIN m1.sessions)
  IN [m2 EXCEPT !.clientToSessions = <<>>]

\* The event of a shutdown: what it found, the sessions with clients and
\* the orphaned ones.
Shutdown ==
  [op |-> "shutdown", c |-> NoClient, s |-> NoSid, was |-> {},
   attached |-> {s \in DOMAIN sm.sessions : sm.sessions[s].clients # {}},
   orphaned |-> {s \in DOMAIN sm.sessions : sm.sessions[s].clients = {}}]

\* TerminalServer.close: the sweeper's interval is cleared, the manager
\* cleaned up, the WebSocketServer closed and forgotten.
Close ==
  /\ cleanupInterval' = FALSE
  /\ gate' = [gate EXCEPT !.wss = FALSE]
  /\ Ran(Result(cleanup(Now), NoOutput, <<>>), Shutdown)
  /\ UNCHANGED <<outside, options, wsState, inGate, nextSid, emitted>>

InitShutdown ==
  /\ gate = OpenGate
  /\ InitWith({o \in Options({MaxLimitOpt}) : ~o.historyEnabled})

NextShutdown ==
  \/ NextControl
  \/ Close

SpecShutdown == InitShutdown /\ [][NextShutdown]_vars

\* ----------------------------------------------------------------- resize
\* The geometries a resize message asks for.
Sizes == {<<DefaultCols, DefaultRows>>, <<132, 40>>}

InitResize ==
  /\ gate = OpenGate
  /\ InitWith({o \in Options({MaxLimitOpt}) : ~o.historyEnabled})

NextResize ==
  \/ NextControl
  \/ \E c \in Clients, s \in Sids, size \in Sizes :
       ResizeMsg(c, s, size[1], size[2])

SpecResize == InitResize /\ [][NextResize]_vars

\* ------------------------------------------------- a CircularBuffer alone
\* The largest capacity, the longest chunk and the number of calls made on
\* a buffer.
MaxCapacity == 2
MaxData == 3
MaxCalls == 3

\* The strings a caller appends: the empty one included.
Chunks == UNION {[1..n -> {"a", "b"}] : n \in 0..MaxData}

\* buffer is the record
\*   obj       the CircularBuffer: buffer (the chunk list), maxSize,
\*             currentSize
\*   appended  the strings append was called with since the last clear
\*   calls     the number of calls made
\*   op, data  the last call and its argument
InitBuffer ==
  /\ gate = OpenGate
  /\ Constructed({o \in Options({MaxLimitOpt}) : ~o.historyEnabled})
  /\ policy = NoPolicy
  /\ client = NoTerminalClient
  /\ \E maxSize \in 0..MaxCapacity :
       buffer = [obj |-> NewCircularBuffer(maxSize), appended |-> <<>>,
                 calls |-> 0, op |-> "new", data |-> <<>>]

\* append(data).
AppendCall(data) ==
  /\ buffer.op # "none"
  /\ buffer.calls < MaxCalls
  /\ buffer' = [obj |-> BufferAppend(buffer.obj, data),
                appended |-> Append(buffer.appended, data),
                calls |-> buffer.calls + 1, op |-> "append", data |-> data]
  /\ UNCHANGED <<options, sm, wsState, inGate, nextSid, emitted, sent,
                 ptyCalls, last, gate, cleanupInterval, policy, client>>

\* clear().
ClearCall ==
  /\ buffer.op # "none"
  /\ buffer.calls < MaxCalls
  /\ buffer' = [obj |-> BufferClear(buffer.obj), appended |-> <<>>,
                calls |-> buffer.calls + 1, op |-> "clear", data |-> <<>>]
  /\ UNCHANGED <<options, sm, wsState, inGate, nextSid, emitted, sent,
                 ptyCalls, last, gate, cleanupInterval, policy, client>>

NextBuffer ==
  \/ \E data \in Chunks : AppendCall(data)
  \/ ClearCall

SpecBuffer == InitBuffer /\ [][NextBuffer]_vars

\* --------------------------------------------------------- TerminalClient
\* The largest maxReconnectAttempts, and the number of WebSocket objects of
\* a client that exist at a time.
MaxAttempts == 2
MaxSockets == 2

\* client is the record
\*   reconnect, maxReconnectAttempts   the config
\*   state              'disconnected' | 'connecting' | 'connected'
\*   ws                 the socket this.ws refers to, 0 for null
\*   reconnectAttempts  the counter
\*   reconnectTimeout   the handle of the reconnect timer, 0 for null
\*   sockets            per WebSocket object with the client's handlers:
\*                      "none" (no such object, or closed), "connecting",
\*                      "open", "closing"
\*   armed              the handles of the armed timeouts
\*   row                the timer callbacks that ran since the last open
\*   disconnectCalled   disconnect() was called
\*   op                 the call or event that ran last
Sockets == 1..MaxSockets

\* connect() that creates the WebSocket k; k = 0: the constructor throws.
connect(cl, k) ==
  IF cl.state = "connected" THEN cl
  ELSE IF k = 0 THEN [cl EXCEPT !.state = "disconnected"]
  ELSE [cl EXCEPT !.state = "connecting", !.ws = k,
                  !.sockets[k] = "connecting"]

\* scheduleReconnect without the guard on reconnectTimeout.
scheduleReconnect_NoGuard(cl) ==
  LET h == CHOOSE x \in 1..(Cardinality(cl.armed) + 1) : x \notin cl.armed
  IN [cl EXCEPT !.armed = @ \cup {h}, !.reconnectTimeout = h]

scheduleReconnect(cl) ==
  IF cl.reconnectTimeout # 0 THEN cl
  ELSE LET h == CHOOSE x \in 1..(Cardinality(cl.armed) + 1) :
                  x \notin cl.armed
       IN [cl EXCEPT !.armed = @ \cup {h}, !.reconnectTimeout = h]

\* ws.onclose of socket k.
onclose(cl, k) ==
  LET closed == [cl EXCEPT !.sockets[k] = "none", !.state = "disconnected"]
  IN IF closed.reconnect
        /\ closed.reconnectAttempts < closed.maxReconnectAttempts
     THEN scheduleReconnect(closed)
     ELSE closed

\* disconnect().
disconnect(cl) ==
  [cl EXCEPT
     !.reconnect = FALSE,
     !.armed = @ \ {cl.reconnectTimeout},
     !.reconnectTimeout = 0,
     !.sockets = IF cl.ws # 0 /\ @[cl.ws] # "none"
                 THEN [@ EXCEPT ![cl.ws] = "closing"] ELSE @,
     !.ws = 0,
     !.state = "disconnected",
     !.disconnectCalled = TRUE]

InitClient ==
  /\ gate = OpenGate
  /\ Constructed({o \in Options({MaxLimitOpt}) : ~o.historyEnabled})
  /\ policy = NoPolicy
  /\ buffer = NoBuffer
  /\ \E reconnect \in BOOLEAN, maxReconnectAttempts \in 0..MaxAttempts :
       client = [reconnect |-> reconnect,
                 maxReconnectAttempts |-> maxReconnectAttempts,
                 state |-> "disconnected", ws |-> 0,
                 reconnectAttempts |-> 0, reconnectTimeout |-> 0,
                 sockets |-> [k \in Sockets |-> "none"], armed |-> {},
                 row |-> 0, disconnectCalled |-> FALSE, op |-> "new"]

ClientStep(cl) ==
  /\ client.op # "none"
  /\ client' = cl
  /\ UNCHANGED <<options, sm, wsState, inGate, nextSid, emitted, sent,
                 ptyCalls, last, gate, cleanupInterval, policy, buffer>>

\* The application calls connect().
ConnectCall(k) ==
  /\ client.op # "none"
  /\ k # 0 => client.sockets[k] = "none"
  /\ ClientStep([connect(client, k) EXCEPT !.op = "connect"])

\* ws.onopen of socket k.
SocketOpen(k) ==
  /\ client.op # "none"
  /\ client.sockets[k] = "connecting"
  /\ ClientStep([client EXCEPT !.sockets[k] = "open",
                               !.state = "connected",
                               !.reconnectAttempts = 0,
                               !.row = 0,
                               !.op = "open"])

\* ws.onclose of socket k: the connection failed, was lost or was closed.
SocketClosed(k) ==
  /\ client.op # "none"
  /\ client.sockets[k] # "none"
  /\ ClientStep([onclose(client, k) EXCEPT !.op = "close"])

\* The callback of an armed reconnect timer.
ReconnectTimer(h, k) ==
  /\ client.op # "none"
  /\ h \in client.armed
  /\ k # 0 => client.sockets[k] = "none"
  /\ LET fired == [client EXCEPT !.armed = @ \ {h},
                                 !.reconnectTimeout = 0,
                                 !.reconnectAttempts = @ + 1,
                                 !.row = @ + 1]
     IN ClientStep([connect(fired, k) EXCEPT !.op = "reconnect"])

\* The application calls disconnect().
DisconnectCall ==
  /\ client.op # "none"
  /\ ClientStep([disconnect(client) EXCEPT !.op = "disconnect"])

NextClient ==
  \/ \E k \in 0..MaxSockets : ConnectCall(k)
  \/ \E k \in Sockets : SocketOpen(k)
  \/ \E k \in Sockets : SocketClosed(k)
  \/ \E h \in 1..(MaxSockets + 1), k \in 0..MaxSockets : ReconnectTimer(h, k)
  \/ DisconnectCall

SpecClient == InitClient /\ [][NextClient]_vars

\* ----------------------------------------------------------------- claims
Live == DOMAIN sm.sessions

Roster(s) == sm.sessions[s].clients

ArmedFor(s) == {t \in sm.timeouts : t.sid = s}

\* C1: a client id is in the roster of a session of the index if and only
\* if the session is in the client's entry of clientToSessions, and
\* clientToSessions names no session that is absent from the index.
C1_RosterMatchesIndex ==
  /\ \A c \in Clients, s \in Sids :
       (s \in Live /\ c \in Roster(s))
         <=> (c \in DOMAIN sm.clientToSessions /\ s \in sm.clientToSessions[c])
  /\ \A c \in DOMAIN sm.clientToSessions : sm.clientToSessions[c] \subseteq Live

\* A session with two clients was closed while one of them stays attached
\* to another session.
C1_Witness ==
  /\ sm.events # <<>>
  /\ Cardinality(last.was) = 2
  /\ \E c \in last.was :
       c \in DOMAIN sm.clientToSessions /\ sm.clientToSessions[c] # {}

\* C2: between two handlers, for every session of the index, orphanedAt is
\* set if and only if the roster is empty, and an orphan timer is armed for
\* the session (exactly one, the one orphanTimers holds) if and only if
\* orphanedAt is set.
C2_OrphanedIffEmptyIffTimer ==
  \A s \in Live :
    /\ sm.sessions[s].orphanedAt <=> Roster(s) = {}
    /\ s \in DOMAIN sm.orphanTimers <=> sm.sessions[s].orphanedAt
    /\ Cardinality(ArmedFor(s)) = IF sm.sessions[s].orphanedAt THEN 1 ELSE 0
    /\ s \in DOMAIN sm.orphanTimers
         => \E t \in ArmedFor(s) : t.h = sm.orphanTimers[s]

\* The last client of a session has just left it: the session is orphaned
\* with its timer armed, next to a session that has clients and no timer.
C2_Witness ==
  /\ last.op \in {"leave", "close"}
  /\ last.s \in Live
  /\ last.was = {last.c}
  /\ sm.sessions[last.s].orphanedAt
  /\ ArmedFor(last.s) # {}
  /\ \E s \in Live : ~sm.sessions[s].orphanedAt /\ ArmedFor(s) = {}

\* C6: a data message naming a session whose roster does not contain the
\* sender makes no pty.write() call, sends no frame to anyone and leaves the
\* manager as it was.
C6_ForeignDataIgnored ==
  [][(last'.op = "data" /\ ~isClientInSession(sm, last'.s, last'.c))
       => /\ ptyCalls' = <<>>
          /\ sent' = NoOutput
          /\ sm' = Now]_vars

\* A data message for a live session was handled whose sender is not in
\* the roster, while another client is.
C6_Witness ==
  /\ last.op = "data"
  /\ last.s \in Live
  /\ last.c \notin last.was
  /\ last.was # {}
  /\ ptyCalls = <<>>

\* C8: a close message from a client that is not the owner leaves the
\* session in the index and its PTY alive, sends nothing, and changes
\* nothing but the roster of that session, which loses that client (with
\* the index entry and the orphan marking that follow the roster).
C8_NonOwnerCloseOnlyLeaves ==
  [][(last'.op = "close" /\ last'.s \in Live
        /\ sm.sessions[last'.s].owner # last'.c)
       => LET s == last'.s
              c == last'.c
          IN /\ DOMAIN sm'.sessions = Live
             /\ sm'.pty = sm.pty
             /\ sm'.events = <<>>
             /\ sm'.sessions[s].clients = Roster(s) \ {c}
             /\ \A x \in Live \ {s} : sm'.sessions[x] = sm.sessions[x]
             /\ sm'.sessions[s].owner = sm.sessions[s].owner
             /\ sm'.sessions[s].accepting = sm.sessions[s].accepting
             /\ sm'.sessions[s].historyBuffer = sm.sessions[s].historyBuffer
             /\ sent' = NoOutput
             /\ ptyCalls' = <<>>]_vars

\* A non-owner that was in the roster closed: the session is live, its PTY
\* runs, the owner is still attached and the sender is not.
C8_Witness ==
  /\ last.op = "close"
  /\ last.s \in Live
  /\ sm.sessions[last.s].owner # last.c
  /\ last.c \in last.was
  /\ Roster(last.s) = {sm.sessions[last.s].owner}
  /\ sm.pty[last.s] = "running"

ClosedWith(m, s, reason) ==
  \E i \in 1..Len(m.events) :
     m.events[i] = [sessionId |-> s, reason |-> reason]

\* C9: a join that enters the roster of an orphaned session leaves the
\* session live with orphanedAt cleared, no entry in orphanTimers and no
\* armed timer for it; and a session is closed with reason orphan_timeout
\* only by a timer that finds its roster empty and orphanedAt set, so the
\* cancelled timer of the reclaimed episode never closes it.
C9_JoinReclaimsOrphan ==
  [][/\ (/\ last'.op = "join"
         /\ last'.s \in Live
         /\ sm.sessions[last'.s].orphanedAt
         /\ last'.s \in DOMAIN sm'.sessions
         /\ last'.c \in sm'.sessions[last'.s].clients)
        => /\ ~sm'.sessions[last'.s].orphanedAt
           /\ last'.s \notin DOMAIN sm'.orphanTimers
           /\ \A t \in sm'.timeouts : t.sid # last'.s
           /\ sm'.events = <<>>
     /\ \A s \in Sids :
          ClosedWith(sm', s, "orphan_timeout")
            => /\ last'.op = "orphanTimeout"
               /\ s \in Live
               /\ Roster(s) = {}
               /\ sm.sessions[s].orphanedAt]_vars

\* A join has just reclaimed a session whose roster was empty: the joiner
\* is alone in the roster, while the timer of another orphaned session
\* stays armed.
C9_Witness ==
  /\ last.op = "join"
  /\ last.s \in Live
  /\ last.was = {}
  /\ Roster(last.s) = {last.c}
  /\ ~sm.sessions[last.s].orphanedAt
  /\ \E t \in sm.timeouts : t.sid # last.s

\* C3 as amended: for every positive configured value of the two limits,
\* no roster is larger than maxClientsPerSession and the session index
\* holds no more than maxSessionsTotal sessions.
C3_WithinPositiveLimits ==
  /\ options.maxClientsPerSession > 0
       => \A s \in Live :
            Cardinality(Roster(s)) <= options.maxClientsPerSession
  /\ options.maxSessionsTotal > 0
       => Cardinality(Live) <= options.maxSessionsTotal

\* C3 as stated: the same for every configured value, 0 included.
C3_WithinConfiguredLimits ==
  /\ \A s \in Live : Cardinality(Roster(s)) <= options.maxClientsPerSession
  /\ Cardinality(Live) <= options.maxSessionsTotal

\* A join was refused because the roster is at its configured capacity,
\* with the session index at its configured capacity too.
C3_Witness ==
  /\ last.op = "join"
  /\ last.s \in Live
  /\ last.c \notin Roster(last.s)
  /\ sm.sessions[last.s].accepting
  /\ sent[last.c] = <<ErrorFrame("Failed to join session")>>
  /\ options.maxClientsPerSession > 0
  /\ Cardinality(Roster(last.s)) = options.maxClientsPerSession
  /\ Cardinality(Live) = options.maxSessionsTotal

\* The payloads of the data frames of session s among frames, in order.
DataPayloads(frames, s) ==
  LET data == SelectSeq(frames,
                        LAMBDA f : f.type = "data" /\ f.sessionId = s)
  IN [i \in 1..Len(data) |-> data[i].arg]

\* The chunk of len characters the PTY of session s emitted last.
LastChunk(s, len) == [i \in 1..len |-> emitted[s] - len + i]

\* C4: when the PTY of a session emits a chunk, any two clients in the
\* roster are sent the same data payloads, and a payload that is sent is the
\* chunk just emitted: two clients that stay in the roster are sent the same
\* payloads in the order the PTY emitted them.
C4_SameDataInPtyOrder ==
  (last.op = "ptyData" /\ last.s \in Live)
    => \E len \in 1..emitted[last.s] :
         \A a, b \in Roster(last.s) :
            /\ DataPayloads(sent[a], last.s) = DataPayloads(sent[b], last.s)
            /\ DataPayloads(sent[a], last.s)
                 \in {<<>>, <<LastChunk(last.s, len)>>}

\* What the code guarantees of C4: the same, of the roster clients whose
\* socket is open; and data frames are sent by nothing but a PTY data event.
C4_OpenClientsSameData ==
  /\ (last.op = "ptyData" /\ last.s \in Live)
       => \E len \in 1..emitted[last.s] :
            \A c \in Roster(last.s) :
               wsState[c] = "open"
                 => DataPayloads(sent[c], last.s) = <<LastChunk(last.s, len)>>
  /\ \A c \in Clients, s \in Sids :
       DataPayloads(sent[c], s) # <<>>
         => last.op = "ptyData" /\ last.s = s /\ c \in Roster(s)

\* The joined frame among the frames sent to the joiner, if there is one.
JoinedFrames(frames) == SelectSeq(frames, LAMBDA f : f.type = "joined")

\* C5: the history string of a joined frame is everything the PTY of the
\* session has emitted so far, and from then on every chunk the PTY emits
\* is sent as one data frame to every client that joined and is in the
\* roster: nothing emitted is in both, nothing emitted is in neither.
C5_HistoryThenRemainder ==
  /\ (last.op = "join" /\ JoinedFrames(sent[last.c]) # <<>>)
       => LET history == JoinedFrames(sent[last.c])[1].arg.history
          IN history.defined
               => history.str = [i \in 1..emitted[last.s] |-> i]
  /\ (last.op = "ptyData" /\ last.s \in Live)
       => \E len \in 1..emitted[last.s] :
            \A c \in Roster(last.s) \ {sm.sessions[last.s].owner} :
               DataPayloads(sent[c], last.s) = <<LastChunk(last.s, len)>>

\* What the code guarantees of C5: the history string is a block of the
\* emitted stream that ends with the last character emitted before the
\* join, no longer than the history capacity.
C5_HistoryIsSuffix ==
  (last.op = "join" /\ JoinedFrames(sent[last.c]) # <<>>)
    => LET history == JoinedFrames(sent[last.c])[1].arg.history
           n == Len(history.str)
       IN /\ n <= emitted[last.s]
          /\ n <= Config.historySize
          /\ history.str = [i \in 1..n |-> emitted[last.s] - n + i]

SessionClosedFrames(frames, s) ==
  SelectSeq(frames, LAMBDA f : f.type = "sessionClosed" /\ f.sessionId = s)

\* C7: when the owner closes a session, every client in its roster is sent
\* exactly one sessionClosed frame, with reason owner_closed; and a
\* sessionClosed frame for a session is sent only by the handler that
\* closes it, so none follows, from the PTY's exit or anything else.
C7_OwnerCloseNotifiesRoster ==
  /\ (last.op = "close" /\ ClosedWith(sm, last.s, "owner_closed"))
       => \A c \in last.was :
            SessionClosedFrames(sent[c], last.s)
              = <<Frame("sessionClosed", last.s, "owner_closed")>>
  /\ \A c \in Clients, s \in Sids :
       SessionClosedFrames(sent[c], s) # <<>>
         => \E i \in 1..Len(sm.events) : sm.events[i].sessionId = s

\* What the code guarantees of C7: the same, of the roster clients whose
\* socket is open.
C7_OpenClientsNotified ==
  /\ (last.op = "close" /\ ClosedWith(sm, last.s, "owner_closed"))
       => \A c \in last.was :
            wsState[c] = "open"
              => SessionClosedFrames(sent[c], last.s)
                   = <<Frame("sessionClosed", last.s, "owner_closed")>>
  /\ \A c \in Clients, s \in Sids :
       SessionClosedFrames(sent[c], s) # <<>>
         => \E i \in 1..Len(sm.events) : sm.events[i].sessionId = s

Orphaned(s) == s \in Live /\ sm.sessions[s].orphanedAt

\* The sessions a sessionList frame sent to c names.
Listed(frames) ==
  UNION {{info.sessionId : info \in frames[i].arg} :
           i \in {j \in 1..Len(frames) : frames[j].type = "sessionList"}}

\* What C10 says of a closed session: a session id that has left the index
\* never returns to it, no sessionList frame names it, and a join naming it
\* changes nothing and is answered with one error frame.
ClosedStaysClosed ==
  /\ [][\A s \in Sids : (s < nextSid /\ s \notin Live)
                           => s \notin DOMAIN sm'.sessions]_vars
  /\ [](\A c \in Clients : Listed(sent[c]) \subseteq Live)
  /\ [][(last'.op = "join" /\ last'.s \notin Live)
          => /\ sm' = Now
             /\ sent' = sendTo(last'.c, ErrorFrame("Session not found"))]_vars

C11_TransportCloseDetaches ==
  [][last'.op = "transportClose"
       => /\ DOMAIN sm'.sessions = DOMAIN sm.sessions
          /\ sm'.events = <<>>
          /\ sm'.pty = sm.pty
          /\ last'.c \notin DOMAIN sm'.clientToSessions
          /\ \A s \in DOMAIN sm.sessions :
               LET before == sm.sessions[s]
                   after == sm'.sessions[s]
               IN /\ after.clients = before.clients \ {last'.c}
                  /\ (after.clients # {} \/ last'.c \notin before.clients)
                       => after = [before EXCEPT !.clients = after.clients]
                  /\ (after.clients = {} /\ last'.c \in before.clients)
                       => /\ after.orphanedAt
                          /\ s \in DOMAIN sm'.orphanTimers
                          /\ \E x \in sm'.timeouts :
                               x.sid = s /\ x.h = sm'.orphanTimers[s]]_vars

\* The transport of a client closed: a session it owned alone is now
\* orphaned and live, and another session it was in lives on with the
\* other client.
C11_Witness ==
  /\ last.op = "transportClose"
  /\ wsState[last.c] = "closed"
  /\ \E s1, s2 \in Live :
       /\ s1 # s2
       /\ sm.sessions[s1].owner = last.c
       /\ Orphaned(s1) /\ ArmedFor(s1) # {}
       /\ Roster(s2) = Clients \ {last.c}
       /\ sm.sessions[s2].owner = last.c
       /\ ~Orphaned(s2)

\* C12: a client whose transport has closed, and whose close handler has
\* run, is in no session roster and has no client-to-sessions entry.
C12_ClosedClientNowhere ==
  \A c \in Clients :
     wsState[c] = "closed"
       => /\ c \notin DOMAIN sm.clientToSessions
          /\ \A s \in Live : c \notin Roster(s)

\* The reasons for which a join of session s is rejected.
JoinRejected(s) ==
  \/ s \notin DOMAIN sm.sessions
  \/ ~sm.sessions[s].accepting
  \/ Cardinality(sm.sessions[s].clients) >= Config.maxClientsPerSession

\* C17: a join that is rejected (unknown session, session not accepting,
\* roster at maxClientsPerSession) is answered with one error frame to the
\* requester, and leaves the rosters, the client-to-sessions index, the
\* orphaned state and the orphan timers as they were; a join that is
\* answered with an error frame was rejected for one of these reasons.
C17_RejectedJoinChangesNothing ==
  [][last'.op = "join"
       => /\ JoinRejected(last'.s)
             => /\ sm' = Now
                /\ ptyCalls' = <<>>
                /\ Len(sent'[last'.c]) = 1
                /\ sent'[last'.c][1].type = "error"
                /\ \A c \in Clients \ {last'.c} : sent'[c] = <<>>
          /\ (\E i \in 1..Len(sent'[last'.c]) :
                sent'[last'.c][i].type = "error")
               => JoinRejected(last'.s) /\ sm' = Now]_vars

\* A join was refused because the roster is full: the session is live and
\* accepting, the requester is open and not in its roster.
C17_Witness ==
  /\ last.op = "join"
  /\ last.s \in Live
  /\ sm.sessions[last.s].accepting
  /\ wsState[last.c] = "open"
  /\ last.c \notin Roster(last.s)
  /\ Cardinality(Roster(last.s)) = Config.maxClientsPerSession
  /\ sent[last.c] = <<ErrorFrame("Failed to join session")>>

\* The session index holds maxSessionsTotal sessions (or more).
IndexFull == Cardinality(DOMAIN sm.sessions) >= Config.maxSessionsTotal

\* C18: a spawn requested while the session index holds maxSessionsTotal
\* sessions is answered with one error frame to the requester and no spawned
\* frame, and changes no state: no session, roster or index entry, and no
\* PTY started for the request is left running.
C18_SpawnAtCapacityChangesNothing ==
  [][(last'.op = "spawn" /\ IndexFull)
       => /\ Len(sent'[last'.c]) = 1
          /\ sent'[last'.c][1].type = "error"
          /\ \A c \in Clients \ {last'.c} : sent'[c] = <<>>
          /\ sm' = Now]_vars

\* What holds of such a spawn: the error frame, and the sessions, rosters,
\* index and timers are unchanged (the PTY the request started aside).
C18_SpawnAtCapacityKeepsIndex ==
  [][(last'.op = "spawn" /\ IndexFull)
       => /\ Len(sent'[last'.c]) = 1
          /\ sent'[last'.c][1].type = "error"
          /\ \A c \in Clients \ {last'.c} : sent'[c] = <<>>
          /\ sm' = [Now EXCEPT !.ptyLeaked = sm'.ptyLeaked]]_vars

\* C20: a server configured with idleTimeout 0 never closes a session for
\* inactivity: no handler emits sessionClosed with reason idle_timeout.
C20_ZeroIdleTimeoutNeverReaps ==
  options.idleTimeout = 0
    => \A i \in 1..Len(sm.events) : sm.events[i].reason # "idle_timeout"

\* The live sessions whose recorded owner is client c.
OwnedBy(c) == {s \in Live : sm.sessions[s].owner = c}

\* The live sessions whose roster holds client c.
AttachedTo(c) == {s \in Live : c \in Roster(s)}

CapError == ErrorFrame("Maximum sessions reached")

\* C19: a spawn is rejected by the per-client cap, with an error frame,
\* exactly when the number of live sessions owned by the requester equals
\* maxSessionsPerClient; joined sessions do not count, owned sessions the
\* client has left do.
C19_CapCountsOwnedSessions ==
  [][last'.op = "spawn"
       => (sent'[last'.c] = <<CapError>>
             <=> Cardinality(OwnedBy(last'.c)) = Config.maxSessionsPerClient)]_vars

\* What the cap counts: the sessions whose roster holds the requester,
\* owned or joined, and it rejects at maxSessionsPerClient or above.
C19_CapCountsMemberships ==
  [][last'.op = "spawn"
       => (sent'[last'.c] = <<CapError>>
             <=> Cardinality(AttachedTo(last'.c))
                   >= Config.maxSessionsPerClient)]_vars

\* The events in which a message of a client is answered or dispatched
\* without having been suspended.
Unsuspended(c) ==
  /\ last'.c = c
  /\ last'.op \in {"message", "authMessage", "permissionDenied"}
  /\ gate'.pending[c] = gate.pending[c]

\* C13: the messages of one client take effect in arrival order: a
\* suspended message that is dispatched or answered is the oldest suspended
\* message of its client, and no message of a client is dispatched or
\* answered while an older message of that client is suspended.
C13_PerClientArrivalOrder ==
  [][\A c \in Clients :
       /\ Len(gate'.pending[c]) < Len(gate.pending[c])
            => gate'.pending[c] = Tail(gate.pending[c])
       /\ Unsuspended(c) => gate.pending[c] = <<>>]_vars

\* A step that changes session, roster, history or PTY state, or writes to
\* a PTY.
Touches == sm' # Now \/ ptyCalls' # <<>>

\* With a provider no message reaches its handler before the provider has
\* answered for it; a denied message and an auth message change nothing;
\* no auth message is answered with permissionDenied.
GateDiscipline ==
  /\ Touches
       => \/ last'.op \in {"permissionGranted", "socketClose"}
          \/ last'.op = "message" /\ ~gate.provider
  /\ last'.op \in {"authMessage", "authResolved"}
       => \A i \in 1..Len(sent'[last'.c]) :
             sent'[last'.c][i].type # "permissionDenied"

\* The sender of a denied message is sent one permissionDenied frame.
DeniedFrameSent ==
  /\ Len(sent'[last'.c]) = 1
  /\ sent'[last'.c][1].type = "permissionDenied"
  /\ \A c \in Clients \ {last'.c} : sent'[c] = <<>>

\* C14: every message other than auth is evaluated by the permission gate
\* before it is dispatched; a message the gate denies changes no state and
\* its sender, while its socket is there, is sent a permissionDenied frame;
\* an auth message is never evaluated by the gate.
C14_DeniedMessageAnswered ==
  [][/\ GateDiscipline
     /\ (last'.op = "permissionDenied" /\ wsState[last'.c] # "closed")
          => DeniedFrameSent]_vars

\* What holds: the same, with the frame sent when the server holds the
\* WebSocketServer the socket belongs to.
C14_DeniedMessageAnsweredIfAttached ==
  [][/\ GateDiscipline
     /\ (last'.op = "permissionDenied" /\ wsState[last'.c] # "closed"
           /\ gate.wss)
          => DeniedFrameSent]_vars

RejectedFrame ==
  AuthFrame(FALSE, "Authentication required before other operations")

\* C15: with requireAuth, while a connected client has no user context,
\* every message of it other than auth is answered with a failed
\* authResponse and changes no session, roster or PTY state, nor is it
\* handed to the provider; the client gets a user context only by an auth
\* message that succeeds.
C15_UnauthenticatedOnlyAuth ==
  [][\A c \in Clients :
       (gate.requireAuth /\ wsState[c] = "open" /\ c \notin gate.clientUsers)
         => /\ (last'.c = c
                 /\ last'.op \in {"message", "permissionGranted",
                                  "permissionDenied"})
                 => /\ ~Touches
                    /\ gate' = gate
                    /\ sent' = sendTo(c, RejectedFrame)
            /\ (last'.c = c /\ Touches) => last'.op = "socketClose"
            /\ c \in gate'.clientUsers
                 => /\ last'.c = c
                    /\ last'.op = "authResolved"
                    /\ sent'[c] = <<ServerInfo, AuthFrame(TRUE, "")>>]_vars

\* An unauthenticated client of a server that requires authentication asked
\* to join a live session and was refused.
C15_Witness ==
  /\ gate.requireAuth
  /\ last.op = "message"
  /\ last.s \in Live
  /\ wsState[last.c] = "open"
  /\ last.c \notin gate.clientUsers
  /\ last.c \notin Roster(last.s)
  /\ sent = sendTo(last.c, RejectedFrame)

\* A connection of a server with a provider and requireAuth whose
\* authenticateConnection neither yielded a user nor threw.
ConnectedWithoutUser ==
  /\ last'.op = "connection"
  /\ gate.provider /\ gate.requireAuth
  /\ last'.c \notin gate'.clientUsers
  /\ sent'[last'.c] # <<AuthFrame(FALSE, "authentication error")>>

\* An auth message that succeeds removes the pending mark and records the
\* user context.
AuthEndsPending ==
  (last'.op = "authResolved"
     /\ sent'[last'.c] = <<ServerInfo, AuthFrame(TRUE, "")>>)
    => /\ last'.c \notin gate'.authPending
       /\ last'.c \in gate'.clientUsers

\* C16: with requireAuth and a provider, a client whose connection yields
\* no user is kept connected and marked auth-pending, whatever
\* allowAnonymous is; a later auth message that succeeds removes the mark
\* and records the user context.
C16_NoUserKeptPending ==
  [][/\ ConnectedWithoutUser
          => /\ wsState'[last'.c] = "open"
             /\ last'.c \in gate'.authPending
     /\ AuthEndsPending]_vars

\* What holds: the same when allowAnonymous is true.
C16_NoUserKeptPendingIfAnonymous ==
  [][/\ (ConnectedWithoutUser /\ gate.allowAnonymous)
          => /\ wsState'[last'.c] = "open"
             /\ last'.c \in gate'.authPending
     /\ AuthEndsPending]_vars

\* Frame f1 is sent before frame f2 in a sequence of frames.
SentInOrder(frames, f1, f2) ==
  \E i, j \in 1..Len(frames) : i < j /\ frames[i] = f1 /\ frames[j] = f2

\* The sessions the handler that just ran closed with the given reason.
ClosedNow(reason) ==
  {sm'.events[i].sessionId :
     i \in {k \in 1..Len(sm'.events) : sm'.events[k].reason = reason}}

\* C21: when the idle sweep reaps a session, every client in its roster is
\* sent exit with code -1 and then sessionClosed with reason idle_timeout,
\* both for that session.
C21_IdleReapSendsExitThenClosed ==
  [][\A s \in ClosedNow("idle_timeout") :
       \A c \in sm.sessions[s].clients :
          SentInOrder(sent'[c], Frame("exit", s, -1),
                      Frame("sessionClosed", s, "idle_timeout"))]_vars

\* What holds: the sweep reaps what it finds idle, every roster client
\* whose socket is open is sent exit with code -1 for the session, and no
\* sessionClosed frame is sent.
C21_IdleReapSendsExitOnly ==
  [][\A s \in ClosedNow("idle_timeout") :
       /\ last'.op = "idleSweep"
       /\ s \notin DOMAIN sm'.sessions
       /\ \A c \in sm.sessions[s].clients :
            wsState[c] = "open"
              => \E i \in 1..Len(sent'[c]) : sent'[c][i] = Frame("exit", s, -1)
       /\ \A c \in Clients :
            \A i \in 1..Len(sent'[c]) : sent'[c][i].type # "sessionClosed"]_vars

\* C22: when the child process of a session exits, every client in the
\* roster at that moment is sent exit with the exit code and then
\* sessionClosed with reason process_exit, and the session leaves the
\* session index.
C22_ExitSendsExitThenClosed ==
  [][\A s \in ClosedNow("process_exit") :
       /\ s \notin DOMAIN sm'.sessions
       /\ \A c \in sm.sessions[s].clients :
            SentInOrder(sent'[c], Frame("exit", s, 0),
                        Frame("sessionClosed", s, "process_exit"))]_vars

\* What holds: the same for the roster clients whose socket is open, which
\* are sent exactly these two frames; only the PTY's exit handler closes
\* with reason process_exit.
C22_OpenClientsSentExitThenClosed ==
  [][\A s \in ClosedNow("process_exit") :
       /\ last'.op = "ptyExit" /\ last'.s = s
       /\ s \notin DOMAIN sm'.sessions
       /\ \A c \in sm.sessions[s].clients :
            wsState[c] = "open"
              => sent'[c] = <<Frame("exit", s, 0),
                              Frame("sessionClosed", s, "process_exit")>>]_vars

\* The sessions the handler that just ran closed, with their reasons.
ClosedEvents == {sm'.events[i] : i \in 1..Len(sm'.events)}

\* C23: whenever a session is terminated, for whatever cause, every client
\* in its roster at that moment is sent a sessionClosed frame for the
\* session that carries the reason of the cause.
C23_TerminationNotifiesRoster ==
  [][\A e \in ClosedEvents :
       \A c \in sm.sessions[e.sessionId].clients :
          \E i \in 1..Len(sent'[c]) :
             sent'[c][i] = Frame("sessionClosed", e.sessionId, e.reason)]_vars

\* What holds: the roster clients whose socket is open are sent the frame
\* when the owner closes the session or its child process exits.
C23_NotifiedOnCloseAndExit ==
  [][\A e \in ClosedEvents :
       /\ e.reason \in {"owner_closed", "process_exit", "orphan_timeout",
                        "idle_timeout"}
       /\ e.reason \in {"owner_closed", "process_exit"}
            => \A c \in sm.sessions[e.sessionId].clients :
                  wsState[c] = "open"
                    => \E i \in 1..Len(sent'[c]) :
                          sent'[c][i] = Frame("sessionClosed", e.sessionId,
                                              e.reason)
       /\ e.reason = "orphan_timeout" => sm.sessions[e.sessionId].clients = {}
       /\ e.reason = "idle_timeout"
            => \A c \in Clients :
                  \A i \in 1..Len(sent'[c]) :
                     sent'[c][i].type # "sessionClosed"]_vars

\* The clients the step removes from the roster of a session that stays
\* live.
Removed(s) == sm.sessions[s].clients \ sm'.sessions[s].clients

StaysLive == DOMAIN sm.sessions \cap DOMAIN sm'.sessions

ClientLeftFrame(s) ==
  Frame("clientLeft", s, Cardinality(sm'.sessions[s].clients))

\* C24: whenever a client is removed from the roster of a session that
\* stays live (leave, non-owner close, closure of its transport), every
\* client remaining in the roster is sent a clientLeft frame for the
\* session whose count is the roster size after the removal.
C24_RemovalNotifiesRemaining ==
  [][\A s \in StaysLive :
       Removed(s) # {}
         => \A r \in sm'.sessions[s].clients :
               \E i \in 1..Len(sent'[r]) : sent'[r][i] = ClientLeftFrame(s)]_vars

\* What holds: a roster loses a client only by one of the three causes,
\* and on a leave every remaining client whose socket is open is sent
\* exactly that frame; the two other causes send no frame at all.
C24_OnlyLeaveNotifies ==
  [][\A s \in StaysLive :
       Removed(s) # {}
         => /\ last'.op \in {"leave", "close", "transportClose"}
            /\ Removed(s) = {last'.c}
            /\ last'.op = "leave"
                 => \A r \in sm'.sessions[s].clients :
                       wsState[r] = "open"
                         => sent'[r] = <<ClientLeftFrame(s)>>
            /\ last'.op # "leave" => sent' = NoOutput]_vars

\* C25: a leave for a session whose roster does not hold the sender changes
\* no roster, index, orphan or timer state and sends no clientLeft frame to
\* any client.
C25_ForeignLeaveIsNoOp ==
  [][(last'.op = "leave" /\ ~isClientInSession(sm, last'.s, last'.c))
       => /\ sm' = Now
          /\ \A c \in Clients :
               \A i \in 1..Len(sent'[c]) : sent'[c][i].type # "clientLeft"]_vars

\* What holds: such a leave changes no state; for a live session the sender
\* is sent left and every roster client whose socket is open is sent
\* clientLeft with the unchanged roster size, for an unknown session the
\* sender is sent an error frame.
C25_ForeignLeaveChangesNoState ==
  [][(last'.op = "leave" /\ ~isClientInSession(sm, last'.s, last'.c))
       => /\ sm' = Now
          /\ ptyCalls' = <<>>
          /\ last'.s \notin DOMAIN sm.sessions
               => sent' = sendTo(last'.c, ErrorFrame("Session not found"))
          /\ last'.s \in DOMAIN sm.sessions
               => sent' = Cat(sendTo(last'.c, Frame("left", last'.s, <<>>)),
                              broadcastToSession(
                                sm, last'.s,
                                Frame("clientLeft", last'.s,
                                      Cardinality(sm.sessions[last'.s].clients)),
                                NoClient))]_vars

\* The joined frames among a client's frames: the joins that succeeded.
JoinedNow == JoinedFrames(sent'[last'.c])

ClientJoinedFrame(s) ==
  Frame("clientJoined", s, Cardinality(sm'.sessions[s].clients))

\* The frames of a type in a sequence of frames.
OfType(frames, type) == SelectSeq(frames, LAMBDA f : f.type = type)

\* C26: on every successful join each client already in the roster is sent
\* exactly one clientJoined frame whose count is the new roster size, the
\* joining client is sent none, and the session info of its joined frame
\* reports the same count.
C26_JoinNotifiesRoster ==
  [][(last'.op = "join" /\ Len(JoinedNow) > 0)
       => /\ \A r \in sm.sessions[last'.s].clients \ {last'.c} :
               OfType(sent'[r], "clientJoined") = <<ClientJoinedFrame(last'.s)>>
          /\ OfType(sent'[last'.c], "clientJoined") = <<>>
          /\ JoinedNow[1].arg.session.clientCount
               = Cardinality(sm'.sessions[last'.s].clients)]_vars

\* What holds: the same for the roster clients whose socket is open.
C26_JoinNotifiesOpenRoster ==
  [][(last'.op = "join" /\ Len(JoinedNow) > 0)
       => /\ Len(JoinedNow) = 1
          /\ \A r \in sm.sessions[last'.s].clients \ {last'.c} :
               wsState[r] = "open"
                 => sent'[r] = <<ClientJoinedFrame(last'.s)>>
          /\ OfType(sent'[last'.c], "clientJoined") = <<>>
          /\ JoinedNow[1].arg.session.clientCount
               = Cardinality(sm'.sessions[last'.s].clients)]_vars

\* The roster size of the joined session before and after the step.
CountBefore == Cardinality(sm.sessions[last'.s].clients)

CountAfter == Cardinality(sm'.sessions[last'.s].clients)

Unwritable == {c \in sm.sessions[last'.s].clients : wsState[c] # "open"}

\* C28: when a frame cannot be written to a roster client's transport, the
\* client is removed from every session it is attached to, and the frame is
\* still sent to every other roster client.
C28_FailedWriteRemovesClient ==
  [][(last'.op = "ptyData" /\ last'.s \in DOMAIN sm.sessions)
       => /\ \A c \in Unwritable :
               /\ c \notin DOMAIN sm'.clientToSessions
               /\ \A s \in DOMAIN sm'.sessions : c \notin sm'.sessions[s].clients
          /\ \A c \in sm.sessions[last'.s].clients \ Unwritable :
               Len(sent'[c]) = 1 /\ sent'[c][1].type = "data"]_vars

\* What holds: the frame is sent to every roster client whose socket is
\* open, and the broadcast removes nobody from any roster.
C28_FailedWriteRemovesNobody ==
  [][(last'.op = "ptyData" /\ last'.s \in DOMAIN sm.sessions)
       => /\ sm'.clientToSessions = sm.clientToSessions
          /\ \A s \in DOMAIN sm.sessions :
               /\ s \in DOMAIN sm'.sessions
               /\ sm'.sessions[s].clients = sm.sessions[s].clients
          /\ \A c \in sm.sessions[last'.s].clients \ Unwritable :
               Len(sent'[c]) = 1 /\ sent'[c][1].type = "data"]_vars

\* A data, resize or close message that names a session absent from the
\* index, or a data message for a session the sender is not in.
NotFound ==
  \/ last'.op \in {"data", "resize", "close"}
       /\ last'.s \notin DOMAIN sm.sessions
  \/ last'.op = "data" /\ ~isClientInSession(sm, last'.s, last'.c)

\* C29: such a message is answered with an error frame to its sender and
\* changes no state.
C29_NotFoundAnsweredWithError ==
  [][NotFound
       => /\ sm' = Now
          /\ ptyCalls' = <<>>
          /\ Len(sent'[last'.c]) = 1
          /\ sent'[last'.c][1].type = "error"]_vars

\* What holds: such a message changes no state and is answered with
\* nothing.
C29_NotFoundDropped ==
  [][NotFound
       => /\ sm' = Now
          /\ ptyCalls' = <<>>
          /\ sent' = NoOutput]_vars

\* The permissionDenied frames the handler that just ran sent.
DeniedFrames ==
  {f \in UNION {Range(sent'[c]) : c \in Clients} : f.type = "permissionDenied"}

\* C30 (as stated): the operation field of every permissionDenied frame is
\* the permission gate's operation name for the denied message
\* (spawn_session for a spawn message, and likewise for the other types).
C30_DeniedFrameNamesOperation ==
  [][last'.op = "permissionDenied"
       => \A f \in DeniedFrames :
            f.arg.operation = getOperationFromMessage(last'.type)]_vars

\* C30 (amended): permissionDenied frames are sent for denied messages only,
\* and to their sender; the operation field of such a frame is the type of
\* the denied message, and its permission field is the gate's operation name
\* for that type when the provider denied the request and is absent
\* otherwise. The handler of a denied message sends nothing else, no
\* spawned frame in particular, creates no session, changes no session and
\* calls no PTY: the request ends there.
C30_DeniedFrameNamesMessageType ==
  [][/\ DeniedFrames # {} => last'.op = "permissionDenied"
     /\ last'.op = "permissionDenied"
          => /\ \A f \in DeniedFrames :
                  /\ f.arg.operation = last'.type
                  /\ f.arg.permission =
                       IF f.arg.error =
                            DeniedFor(getOperationFromMessage(last'.type))
                       THEN getOperationFromMessage(last'.type)
                       ELSE NoPermission
             /\ \A c \in Clients :
                  /\ Range(sent'[c]) \subseteq DeniedFrames
                  /\ c # last'.c => sent'[c] = <<>>
             /\ Len(sent'[last'.c]) <= 1
             /\ sm' = Now
             /\ nextSid' = nextSid
             /\ ptyCalls' = <<>>
             /\ \A c \in Clients :
                  Len(gate'.pending[c]) <= Len(gate.pending[c])]_vars

\* The provider denied a spawn and its sender was sent the frame: operation
\* 'spawn', permission 'spawn_session'.
C30_Witness ==
  /\ last.op = "permissionDenied"
  /\ last.type = "spawn"
  /\ sent[last.c] = <<DeniedFrame("spawn", DeniedFor("spawn_session"),
                                  "spawn_session")>>

\* C31: under every built-in provider, a user whose permissions contain
\* admin is allowed every operation, leave_session included: no message of
\* such a user is answered with permissionDenied.
C31_AdminIsNeverDenied ==
  (policy # NoPolicy /\ policy.type # "none"
     /\ "admin" \in policy.permissions)
    => policy.hasPermission /\ policy.answer = <<>>

\* C32: after shutdown has run the idle sweeper is cancelled, the PTY of
\* every session there was has been killed, no orphan timer remains armed,
\* and the session index and the client-to-sessions index are empty,
\* whatever attached and orphaned sessions there were.
C32_ShutdownLeavesNothing ==
  [][last'.op = "shutdown"
       => /\ ~cleanupInterval'
          /\ \A s \in DOMAIN sm.sessions : sm'.pty[s] = "killed"
          /\ sm'.timeouts = {}
          /\ sm'.orphanTimers = <<>>
          /\ sm'.sessions = <<>>
          /\ sm'.clientToSessions = <<>>]_vars

\* A shutdown that found a session with clients and an orphaned one.
C32_Witness ==
  /\ last.op = "shutdown"
  /\ last.attached # {}
  /\ last.orphaned # {}
  /\ sm.sessions = <<>>
  /\ \A s \in last.attached \cup last.orphaned : sm.pty[s] = "killed"

\* C33: the owner of a session is in its roster when the session is
\* created, and the owner recorded for a session never changes while the
\* session is in the index, whoever joins, leaves or disconnects.
C33_OwnerFixedAtCreation ==
  [][/\ \A s \in DOMAIN sm'.sessions \ DOMAIN sm.sessions :
          /\ sm'.sessions[s].owner = last'.c
          /\ sm'.sessions[s].owner \in sm'.sessions[s].clients
     /\ \A s \in DOMAIN sm'.sessions \cap DOMAIN sm.sessions :
          sm'.sessions[s].owner = sm.sessions[s].owner]_vars

\* The owner left or disconnected, another client is in the roster, and the
\* session is still the owner's.
C33_Witness ==
  /\ last.op \in {"leave", "transportClose"}
  /\ \E s \in Live :
       /\ sm.sessions[s].owner = last.c
       /\ last.c \notin Roster(s)
       /\ Roster(s) # {}

\* The geometry recorded for session s, and the geometry of its PTY.
Stored(m, s) == <<m.sessions[s].cols, m.sessions[s].rows>>

\* C34: the stored geometry of a live session and the geometry of its PTY
\* are equal to each other and to the columns and rows of the most recent
\* resize a roster member sent, and a resize sends no frame to any client:
\* the geometry of a session that stays live changes only by the resize of
\* a client of its roster, and then to what that resize asks for.
C34_GeometryIsLastRosterResize ==
  [][/\ \A s \in DOMAIN sm'.sessions :
          /\ sm'.ptySize[s] = Stored(sm', s)
          /\ s \in DOMAIN sm.sessions
               => IF last'.op = "resize" /\ last'.s = s
                     /\ last'.c \in last'.was
                  THEN Stored(sm', s) = <<last'.cols, last'.rows>>
                  ELSE Stored(sm', s) = Stored(sm, s)
     /\ last'.op = "resize" => sent' = NoOutput]_vars

\* What holds of the code: the stored geometry and the PTY's are equal and
\* are those of the most recent resize that named the session, whoever
\* sent it, and a resize sends no frame.
C34_GeometryIsLastResize ==
  [][/\ \A s \in DOMAIN sm'.sessions :
          /\ sm'.ptySize[s] = Stored(sm', s)
          /\ s \in DOMAIN sm.sessions
               => IF last'.op = "resize" /\ last'.s = s
                  THEN Stored(sm', s) = <<last'.cols, last'.rows>>
                  ELSE Stored(sm', s) = Stored(sm, s)
     /\ last'.op = "resize" => sent' = NoOutput]_vars

\* size(), capacity() and the full snapshot toString() of the buffer.
Size == buffer.obj.currentSize

Capacity == buffer.obj.maxSize

Snapshot == BufferToString(buffer.obj, 0)

\* The last n characters of a string, none when n is 0.
LastChars(str, n) ==
  IF n >= Len(str) THEN str ELSE SubSeq(str, Len(str) - n + 1, Len(str))

\* C35: for a buffer of any capacity, 0 and 1 included, after any sequence
\* of append and clear calls size() is at most the capacity and is the
\* length of the full snapshot, and appending the empty string changes
\* neither.
C35_SizeWithinCapacity ==
  [][buffer'.op # "none"
       => /\ Size' <= Capacity'
          /\ Size' = Len(Snapshot')
          /\ (buffer'.op = "append" /\ buffer'.data = <<>>)
               => Size' = Size /\ Snapshot' = Snapshot]_vars

\* What holds for every capacity: size() is the length of the snapshot, and
\* appending the empty string changes nothing; size() is within a capacity
\* that is not 0.
C35_SizeIsSnapshotLength ==
  [][buffer'.op # "none"
       => /\ Capacity' > 0 => Size' <= Capacity'
          /\ Size' = Len(Snapshot')
          /\ (buffer'.op = "append" /\ buffer'.data = <<>>)
               => buffer'.obj = buffer.obj]_vars

\* C36: whatever the buffer held before, after appending a single chunk
\* longer than the capacity the full snapshot is exactly the last capacity
\* characters of that chunk.
C36_LongChunkKeepsItsTail ==
  [][(buffer'.op = "append" /\ Len(buffer'.data) > Capacity)
       => Snapshot' = LastChars(buffer'.data, Capacity)]_vars

\* What holds: the same, for a buffer whose capacity is not 0.
C36_LongChunkKeepsItsTailPositive ==
  [][(buffer'.op = "append" /\ Len(buffer'.data) > Capacity /\ Capacity > 0)
       => Snapshot' = LastChars(buffer'.data, Capacity)]_vars

\* The number of characters appended since the last clear.
Total == Len(Join(buffer.appended))

\* The longest run of whole chunks at the end of the list that holds no
\* more than cap characters.
RECURSIVE KeptChunks(_, _)
KeptChunks(chunks, cap) ==
  IF chunks = <<>> THEN <<>>
  ELSE LET chunk == chunks[Len(chunks)]
       IN IF Len(chunk) > cap THEN <<>>
          ELSE Append(KeptChunks(SubSeq(chunks, 1, Len(chunks) - 1),
                                 cap - Len(chunk)),
                      chunk)

\* The strings of a list that are not empty.
NonEmpty(chunks) == SelectSeq(chunks, LAMBDA chunk : chunk # <<>>)

\* C40 (as stated): after any appends since the last clear, T characters in
\* all, the full snapshot is exactly the last min(T, capacity) characters
\* of the concatenation of the appended chunks.
C40_SnapshotIsExactSuffix ==
  buffer.op # "none"
    => Snapshot = LastChars(Join(buffer.appended),
                            IF Total <= Capacity THEN Total ELSE Capacity)

\* C40 (amended): the full snapshot is a suffix of the concatenation of the
\* chunks appended since the last clear. It is the whole concatenation when
\* T is at most the capacity. Otherwise the buffer drops whole chunks from
\* the front: the snapshot is the concatenation of the longest run of whole
\* trailing chunks that holds at most capacity characters, which may be
\* fewer than capacity characters; and when the last non-empty chunk alone
\* is longer than the capacity, the snapshot is chunk.slice(-capacity) of
\* that chunk: its last capacity characters, the whole chunk when the
\* capacity is 0.
C40_SnapshotIsWholeChunkSuffix ==
  buffer.op # "none"
    => LET chunks == NonEmpty(buffer.appended)
       IN /\ Snapshot = LastChars(Join(buffer.appended), Len(Snapshot))
          /\ Total <= Capacity => Snapshot = Join(buffer.appended)
          /\ chunks # <<>>
               => Snapshot =
                    IF Len(chunks[Len(chunks)]) > Capacity
                    THEN SliceLast(chunks[Len(chunks)], Capacity)
                    ELSE Join(KeptChunks(chunks, Capacity))

\* More than capacity characters were appended in chunks that each fit, and
\* the snapshot holds fewer than capacity characters.
C40_Witness ==
  /\ buffer.op = "append"
  /\ Total > Capacity
  /\ \A i \in 1..Len(buffer.appended) : Len(buffer.appended[i]) <= Capacity
  /\ Len(buffer.obj.buffer) >= 1
  /\ Len(Snapshot) < Capacity
  /\ Snapshot = Join(KeptChunks(NonEmpty(buffer.appended), Capacity))

\* C37: on a server configured with orphanTimeout 0 a session is killed at
\* once when its last client disconnects, with no waiting period: the
\* session leaves the index in the handler of the disconnect, or at the
\* latest in a timer that is due at once.
C37_ZeroOrphanTimeoutKillsAtOnce ==
  options.orphanTimeout = 0
    => \A s \in Live :
         Roster(s) = {}
           => \E t \in sm.timeouts : t.sid = s /\ t.delay = 0

\* What holds: on a server configured with orphanTimeout 0 an orphaned
\* session stays in the index with its PTY running, and its timer waits
\* the default 60000 ms.
C37_ZeroOrphanTimeoutWaitsDefault ==
  options.orphanTimeout = 0
    => \A s \in Live :
         Roster(s) = {}
           => /\ sm.pty[s] = "running"
              /\ \E t \in sm.timeouts :
                   t.sid = s /\ t.delay = DefaultOrphanTimeout

\* C38: after its connection is lost a TerminalClient makes at most
\* maxReconnectAttempts automatic reconnect attempts in a row without an
\* open in between (an open resets the count), never has more than one
\* reconnect timer pending, and makes no automatic reconnect attempt once
\* disconnect() has been called.
C38_ReconnectsAreBounded ==
  [][client'.op # "none"
       => /\ client'.row <= client'.maxReconnectAttempts
          /\ client'.op = "open"
               => client'.row = 0 /\ client'.reconnectAttempts = 0
          /\ Cardinality(client'.armed) <= 1
          /\ client'.disconnectCalled
               => client'.armed = {} /\ client'.op # "reconnect"]_vars

\* The client has made maxReconnectAttempts attempts in a row, the last one
\* failed, and no timer is armed for another.
C38_Witness ==
  /\ client.op = "close"
  /\ client.reconnect
  /\ client.maxReconnectAttempts = MaxAttempts
  /\ client.row = MaxAttempts
  /\ client.armed = {}
  /\ \A k \in Sockets : client.sockets[k] = "none"

\* The frames of a type about session s that the handler that just ran
\* sent to client c.
FramesAbout(c, s, types) ==
  SelectSeq(sent'[c], LAMBDA f : f.type \in types /\ f.sessionId = s)

\* C39: once a session has left the index no data, exit or sessionClosed
\* frame for it is sent to any client and late PTY output is appended to no
\* history; each client is sent at most one exit frame and at most one
\* sessionClosed frame per session, whatever ends the session first and
\* whatever PTY events follow. A handler that finds the session absent
\* sends no such frame, and a late PTY event changes nothing; an exit or
\* sessionClosed frame is sent at most once per client by a handler, which
\* removes the session before it returns; and an id that has left the index
\* never enters it again.
C39_NothingAfterRemoval ==
  [][/\ \A s \in Sids \ DOMAIN sm.sessions :
          /\ \A c \in Clients :
               FramesAbout(c, s, {"data", "exit", "sessionClosed"}) = <<>>
          /\ (last'.op \in {"ptyData", "ptyExit"} /\ last'.s = s)
               => /\ sm'.sessions = sm.sessions
                  /\ sm'.events = <<>>
                  /\ sent' = NoOutput
          /\ s \in DOMAIN sm'.sessions => s = nextSid /\ nextSid' > s
     /\ \A s \in DOMAIN sm.sessions, c \in Clients :
          /\ Len(FramesAbout(c, s, {"exit"})) <= 1
          /\ Len(FramesAbout(c, s, {"sessionClosed"})) <= 1
          /\ FramesAbout(c, s, {"exit", "sessionClosed"}) # <<>>
               => s \notin DOMAIN sm'.sessions]_vars

\* The exit event of a PTY whose session had left the index before, killed
\* by a close, an orphan timeout or the idle sweep: nothing is sent.
C39_Witness ==
  /\ last.op = "ptyExit"
  /\ sm.pty[last.s] = "exited"
  /\ sm.events = <<>>
  /\ sent = NoOutput
  /\ \E c \in Clients : wsState[c] = "open"

====
